---- MODULE Spec2Model ----
(***************************************************************************)
(* Signature stream processor of sub2api: SignatureStreamState rewrites    *)
(* the signature_delta events of an SSE stream and injects missing ones,   *)
(* reading signatures from the signature pool and handing upstream         *)
(* signatures to the collector.                                            *)
(*                                                                         *)
(* An SSE line is a prefix (what the regexp ^data:\s* matches, "" when it  *)
(* does not match) and a payload.  A payload is a text or a JSON object;   *)
(* a JSON object is the sequence of its members <<key, value>> in the      *)
(* order of the text, so that an edit in place, an append and a            *)
(* re-encoding are three different results.  Upstream objects have         *)
(* distinct member names and members of the types the protocol gives.      *)
(***************************************************************************)
EXTENDS Integers, Sequences, FiniteSets, Bags, TLC

VARIABLES
    config,          \* s.config: [Strategy, PoolFilter]
    cachedSigs,      \* the pool's snapshot, a sequence of CachedSignature
    collector,       \* s.collector: [present, signatures, minLength]
    thinkingBlocks,  \* s.thinkingBlocks: index -> ThinkingBlockState
    inp,             \* the lines handed to ProcessSSELine so far
    rets,            \* what ProcessSSELine returned for each of them
    poolCalls,       \* number of GetRandomSignature calls made by the stream
    streamMu,        \* s.mu of the stream processor: the thread that holds it
    mu,              \* c.mu of the collector: the thread that holds it
    cacheMu,         \* s.cacheMu of the pool: the thread that holds it
    cacheExpiry,     \* s.cacheExpiry of the pool
    now,             \* time.Now()
    rows,            \* the signatures table: rows[id] is the row of that id
    marks,           \* the MarkUsed goroutines started and not yet run, a bag
                     \* of their arguments: the context and the id
    threads,         \* the callers: thread -> its position and its locals
    hist             \* what the properties need of the calls made so far

\* The variables of the pool, of its callers and of the stream.
poolVars == <<cachedSigs, cacheExpiry, now, cacheMu, rows, marks>>
streamVars == <<config, thinkingBlocks, inp, rets, poolCalls, streamMu>>

vars == <<config, cachedSigs, collector, thinkingBlocks, inp, rets, poolCalls,
          streamMu, mu, cacheMu, cacheExpiry, now, rows, marks, threads, hist>>

\* Longest stream explored.
MaxLines == 3

\* NewSignatureCollector: the minimum length used when none is given.
DefaultMinLength == 350

\* No thread: the value of a mutex nobody holds.
NoThread == "none"

\* time.Time{}, before every time.Now(); the time at which a run starts.
ZeroTime == 0
StartTime == 1

----------------------------------------------------------------------------
\* JSON values.  Every value is a record of the same shape.

JStr(s) == [t |-> "str", s |-> s, n |-> 0, m |-> <<>>]
JNum(n) == [t |-> "num", s |-> "", n |-> n, m |-> <<>>]
JObj(m) == [t |-> "obj", s |-> "", n |-> 0, m |-> m]

\* Position of the member named k in the member sequence m, 0 when absent.
RECURSIVE KeyPos(_, _, _)
KeyPos(m, k, i) ==
    IF i > Len(m) THEN 0
    ELSE IF m[i][1] = k THEN i
    ELSE KeyPos(m, k, i + 1)

HasKey(m, k) == KeyPos(m, k, 1) # 0
Get(m, k) == m[KeyPos(m, k, 1)][2]

\* SSE lines.
TextLine(pre, txt) == [pre |-> pre, k |-> "text", txt |-> txt, obj |-> <<>>]
JsonLine(pre, obj) == [pre |-> pre, k |-> "json", txt |-> "", obj |-> obj]

\* generateSignatureDeltaLine returns "" when it has no line.
NoLine == TextLine("", "")

----------------------------------------------------------------------------
\* The events of the protocol, as upstream writes them.

BlockStart(i, cb) ==
    JsonLine("data: ", << <<"type", JStr("content_block_start")>>,
                          <<"index", JNum(i)>>,
                          <<"content_block", JObj(cb)>> >>)

ThinkingBlock == << <<"type", JStr("thinking")>>, <<"thinking", JStr("")>>,
                    <<"signature", JStr("")>> >>
TextBlock == << <<"type", JStr("text")>>, <<"text", JStr("")>> >>

BlockDelta(pre, i, d) ==
    JsonLine(pre, << <<"type", JStr("content_block_delta")>>,
                     <<"index", JNum(i)>>,
                     <<"delta", JObj(d)>> >>)

\* A signature_delta whose delta carries one more member after the signature.
SigDeltaExtra(i, sig) ==
    BlockDelta("data: ", i, << <<"type", JStr("signature_delta")>>,
                               <<"signature", JStr(sig)>>,
                               <<"v", JNum(1)>> >>)
\* A signature_delta written without a blank after "data:".
SigDeltaTight(i, sig) ==
    BlockDelta("data:", i, << <<"type", JStr("signature_delta")>>,
                              <<"signature", JStr(sig)>> >>)
ThinkingDelta(i) ==
    BlockDelta("data: ", i, << <<"type", JStr("thinking_delta")>>,
                               <<"thinking", JStr("hm")>> >>)

BlockStop(i) ==
    JsonLine("data: ", << <<"type", JStr("content_block_stop")>>,
                          <<"index", JNum(i)>> >>)

MessageStop == JsonLine("data: ", << <<"type", JStr("message_stop")>> >>)

EventLine == TextLine("", "event: content_block_delta")
DoneLine == TextLine("data: ", "[DONE]")
EmptyData == TextLine("data:", "")
BadJson == TextLine("data: ", "{oops")

\* The signatures upstream sends and the values the pool holds.
Upstream == "UPSTREAM"
SigA == "SIG-A"
SigB == "SIG-BETA"

\* The lines a stream is made of.
Lines ==
    { EventLine, DoneLine, EmptyData, BadJson, MessageStop,
      BlockStart(0, ThinkingBlock), BlockStart(0, TextBlock),
      BlockStart(1, ThinkingBlock),
      SigDeltaExtra(0, Upstream), SigDeltaTight(0, ""), ThinkingDelta(0),
      BlockStop(0), BlockStop(1) }

----------------------------------------------------------------------------
\* Decoding, as encoding/json does it into the structs of the handlers.

\* sseDataRegex.MatchString(line)
IsDataLine(line) == line.pre # ""

\* json.Unmarshal of the payload into the event struct of ProcessSSELine:
\* a text that is no JSON fails, a member of the wrong type fails, a missing
\* member leaves the zero value, a RawMessage member is kept as it is.
UnmarshalEvent(line) ==
    IF line.k # "json" THEN [ok |-> FALSE]
    ELSE LET m == line.obj
             tyOk == ~HasKey(m, "type") \/ Get(m, "type").t = "str"
             ixOk == ~HasKey(m, "index") \/ Get(m, "index").t = "num"
         IN  IF ~(tyOk /\ ixOk) THEN [ok |-> FALSE]
             ELSE [ok |-> TRUE,
                   Type |-> IF HasKey(m, "type") THEN Get(m, "type").s ELSE "",
                   Index |-> IF HasKey(m, "index") THEN Get(m, "index").n ELSE 0,
                   HasDelta |-> HasKey(m, "delta"),
                   HasContentBlock |-> HasKey(m, "content_block")]

\* json.Unmarshal of a RawMessage into a struct of string fields: an absent
\* (empty) RawMessage fails, as does a value that is no object or a member
\* that is no string.
StrField(m, k) == IF HasKey(m, k) THEN Get(m, k).s ELSE ""
StrFieldOk(m, k) == ~HasKey(m, k) \/ Get(m, k).t = "str"

UnmarshalContentBlock(line, has) ==
    IF ~has \/ Get(line.obj, "content_block").t # "obj" THEN [ok |-> FALSE]
    ELSE LET m == Get(line.obj, "content_block").m
         IN  IF ~(StrFieldOk(m, "type") /\ StrFieldOk(m, "thinking")
                  /\ StrFieldOk(m, "signature"))
             THEN [ok |-> FALSE]
             ELSE [ok |-> TRUE, Type |-> StrField(m, "type"),
                   Signature |-> StrField(m, "signature")]

UnmarshalDelta(line, has) ==
    IF ~has \/ Get(line.obj, "delta").t # "obj" THEN [ok |-> FALSE]
    ELSE LET m == Get(line.obj, "delta").m
         IN  IF ~(StrFieldOk(m, "type") /\ StrFieldOk(m, "signature"))
             THEN [ok |-> FALSE]
             ELSE [ok |-> TRUE, Type |-> StrField(m, "type"),
                   Signature |-> StrField(m, "signature")]

----------------------------------------------------------------------------
\* Encoding.

\* Byte order of the member names that generateSignatureDeltaLine writes.
KeyRank(k) ==
    CASE k = "delta" -> 1
      [] k = "index" -> 2
      [] k = "signature" -> 3
      [] k = "type" -> 4

\* json.Marshal of a map[string]any: the members sorted by name.  (String
\* values are written as they are: the values used here hold no character
\* that encoding/json escapes.)
RECURSIVE MarshalMap(_)
MarshalMap(S) ==
    IF S = {} THEN <<>>
    ELSE LET x == CHOOSE x \in S : \A y \in S : KeyRank(x[1]) <= KeyRank(y[1])
         IN  <<x>> \o MarshalMap(S \ {x})

\* sjson.Set(data, "delta.signature", signature): the value of the member is
\* replaced where it stands, and a missing member is added at the end of
\* delta; nothing else of the text changes.
SjsonSetDeltaSignature(obj, signature) ==
    LET q == KeyPos(obj, "delta", 1)
        d == obj[q][2].m
        p == KeyPos(d, "signature", 1)
        d2 == IF p = 0 THEN Append(d, <<"signature", JStr(signature)>>)
              ELSE [d EXCEPT ![p] = <<"signature", JStr(signature)>>]
    IN  [obj EXCEPT ![q] = <<"delta", JObj(d2)>>]

----------------------------------------------------------------------------
\* Signature pool (the part of it the stream reads).

NoModel == "<nil>"
NilFilter == [nil |-> TRUE, Models |-> {}]
CachedSignature(id, value, model) == [ID |-> id, Value |-> value, Model |-> model]

\* filterSignatures, as a bug would have it: the filter is not applied.
filterSignatures_All(sigs, filter) == sigs

\* filterSignatures, as a bug would have it: an empty result is returned.
filterSignatures_NoDegrade(sigs, filter) ==
    IF filter.nil \/ filter.Models = {} THEN sigs
    ELSE LET keep(sig) == sig.Model = NoModel \/ sig.Model \in filter.Models
         IN  SelectSeq(sigs, keep)

filterSignatures(sigs, filter) ==
    IF filter.nil \/ filter.Models = {} THEN sigs
    ELSE LET keep(sig) == sig.Model = NoModel \/ sig.Model \in filter.Models
             result == SelectSeq(sigs, keep)
         IN  IF Len(result) = 0 THEN sigs ELSE result

\* The answers GetRandomSignature can give on the snapshot sigs.
GetRandomSignature(sigs, filter) ==
    IF Len(sigs) = 0 THEN {[err |-> TRUE, value |-> ""]}
    ELSE LET filtered == filterSignatures(sigs, filter)
         IN  IF Len(filtered) = 0 THEN {[err |-> TRUE, value |-> ""]}
             ELSE {[err |-> FALSE, value |-> filtered[idx].Value] :
                     idx \in 1..Len(filtered)}

----------------------------------------------------------------------------
\* Signature collector.

NilCollector == [present |-> FALSE, signatures |-> <<>>, minLength |-> 0]

NewSignatureCollector(minLength) ==
    [present |-> TRUE, signatures |-> <<>>,
     minLength |-> IF minLength <= 0 THEN DefaultMinLength ELSE minLength]

\* The length filter of Collect, as a bug would have it: a signature as long
\* as the minimum is kept.
belowMinLength_Strict(c, signature) == Len(signature) < c.minLength

\* The length filter of Collect: the call returns at once.
belowMinLength(c, signature) == Len(signature) <= c.minLength

Collect(c, signature) ==
    IF belowMinLength(c, signature) THEN c
    ELSE [c EXCEPT !.signatures = Append(@, signature)]

\* GetCollected, as a bug would have it: the slice of the collector itself.
GetCollected_NoCopy(c) == [list |-> c.signatures, shared |-> TRUE]

\* GetCollected: a new slice with the elements copied into it.  shared says
\* whether the list handed out is the memory the collector appends to.
GetCollected(c) == [list |-> c.signatures, shared |-> FALSE]

\* Count.
Count(c) == Len(c.signatures)

\* sync.Mutex.Lock, as a bug would have it: it never waits.
mutexFree_Always(m) == TRUE

\* sync.Mutex.Lock returns when nobody holds the mutex.
mutexFree(m) == m = NoThread

----------------------------------------------------------------------------
\* Stream processor.  A handler takes the state s = [config, tb, coll,
\* calls] and the answer r the pool gives if it is asked, and returns the
\* line, the extra lines and the new state.

NewBlock(index) ==
    [Index |-> index, Started |-> TRUE, HasSignatureDelta |-> FALSE,
     ReceivedSignature |-> "", Stopped |-> FALSE]

SetBlock(tb, index, b) ==
    [j \in DOMAIN tb \cup {index} |-> IF j = index THEN b ELSE tb[j]]

\* Every return of ProcessSSELine has a nil error.
Result(line, extra, tb, coll, calls) ==
    [line |-> line, extra |-> extra, err |-> FALSE,
     tb |-> tb, coll |-> coll, calls |-> calls]

handleContentBlockStart(s, line, index, hasContentBlock) ==
    LET contentBlock == UnmarshalContentBlock(line, hasContentBlock)
    IN  IF ~contentBlock.ok THEN Result(line, <<>>, s.tb, s.coll, s.calls)
        ELSE IF contentBlock.Type # "thinking"
        THEN Result(line, <<>>, s.tb, s.coll, s.calls)
        ELSE Result(line, <<>>, SetBlock(s.tb, index, NewBlock(index)),
                    s.coll, s.calls)

\* Mutants of replaceSignatureInLine: one re-encodes the event from the
\* fields the handler decoded, one rebuilds the line on a pool miss too.
replaceSignatureInLine_Reencode(line, r) ==
    IF r.err \/ r.value = "" THEN line
    ELSE JsonLine("data: ",
           MarshalMap({ <<"type", JStr("content_block_delta")>>,
                        <<"index", Get(line.obj, "index")>>,
                        <<"delta", JObj(MarshalMap(
                            { <<"type", JStr("signature_delta")>>,
                              <<"signature", JStr(r.value)>> }))>> }))

replaceSignatureInLine_Rebuild(line, r) ==
    IF r.err \/ r.value = "" THEN JsonLine("data: ", line.obj)
    ELSE JsonLine("data: ", SjsonSetDeltaSignature(line.obj, r.value))

replaceSignatureInLine(line, r) ==
    IF r.err \/ r.value = "" THEN line
    ELSE JsonLine("data: ", SjsonSetDeltaSignature(line.obj, r.value))

\* Mutant of generateSignatureDeltaLine: the members in the order of the
\* map literal instead of the order json.Marshal gives them.
generateSignatureDeltaLine_Unsorted(index, r) ==
    IF r.err \/ r.value = "" THEN NoLine
    ELSE JsonLine("data: ",
           << <<"type", JStr("content_block_delta")>>,
              <<"index", JNum(index)>>,
              <<"delta", JObj(<< <<"type", JStr("signature_delta")>>,
                                 <<"signature", JStr(r.value)>> >>)>> >>)

generateSignatureDeltaLine(index, r) ==
    IF r.err \/ r.value = "" THEN NoLine
    ELSE JsonLine("data: ",
           MarshalMap({ <<"type", JStr("content_block_delta")>>,
                        <<"index", JNum(index)>>,
                        <<"delta", JObj(MarshalMap(
                            { <<"type", JStr("signature_delta")>>,
                              <<"signature", JStr(r.value)>> }))>> }))

\* The test on delta.type that decides whether a delta is handled.
isSignatureDelta_AnyDelta(delta) == TRUE

isSignatureDelta(delta) == delta.Type = "signature_delta"

\* The update of the block of index on a signature_delta: nothing when the
\* index has no block.
markSignatureDelta_NoFlag(tb, index, signature) ==
    IF index \in DOMAIN tb
    THEN SetBlock(tb, index, [tb[index] EXCEPT !.ReceivedSignature = signature])
    ELSE tb

markSignatureDelta(tb, index, signature) ==
    IF index \in DOMAIN tb
    THEN SetBlock(tb, index, [tb[index] EXCEPT !.HasSignatureDelta = TRUE,
                                               !.ReceivedSignature = signature])
    ELSE tb

\* The collection of the upstream signature, inside the same test.
collectSignatureDelta(s, index, signature) ==
    IF index \in DOMAIN s.tb /\ s.coll.present /\ signature # ""
    THEN Collect(s.coll, signature)
    ELSE s.coll

\* handleContentBlockDelta, as a bug would have it: under always_replace
\* the signature handed to Collect is read from the line after the rewrite.
handleContentBlockDelta_CollectRewritten(s, line, index, hasDelta, r) ==
    LET delta == UnmarshalDelta(line, hasDelta)
    IN  IF ~delta.ok THEN Result(line, <<>>, s.tb, s.coll, s.calls)
        ELSE IF ~isSignatureDelta(delta)
        THEN Result(line, <<>>, s.tb, s.coll, s.calls)
        ELSE
          LET tb2 == markSignatureDelta(s.tb, index, delta.Signature)
              coll2 == collectSignatureDelta(s, index, delta.Signature)
              rewritten == replaceSignatureInLine(line, r)
              after == UnmarshalDelta(rewritten, hasDelta)
          IN  CASE s.config.Strategy = "always_replace" ->
                     Result(rewritten, <<>>, tb2,
                            collectSignatureDelta(s, index, after.Signature),
                            s.calls + 1)
                [] s.config.Strategy = "fill_missing" ->
                     Result(line, <<>>, tb2, coll2, s.calls)
                [] OTHER -> Result(line, <<>>, tb2, coll2, s.calls)

handleContentBlockDelta(s, line, index, hasDelta, r) ==
    LET delta == UnmarshalDelta(line, hasDelta)
    IN  IF ~delta.ok THEN Result(line, <<>>, s.tb, s.coll, s.calls)
        ELSE IF ~isSignatureDelta(delta)
        THEN Result(line, <<>>, s.tb, s.coll, s.calls)
        ELSE
          LET tb2 == markSignatureDelta(s.tb, index, delta.Signature)
              coll2 == collectSignatureDelta(s, index, delta.Signature)
          IN  CASE s.config.Strategy = "always_replace" ->
                     Result(replaceSignatureInLine(line, r), <<>>, tb2, coll2,
                            s.calls + 1)
                [] s.config.Strategy = "fill_missing" ->
                     Result(line, <<>>, tb2, coll2, s.calls)
                [] OTHER -> Result(line, <<>>, tb2, coll2, s.calls)

\* The switch of handleContentBlockStop on the strategy.
needsInjection_FillOnly(strategy, block) ==
    strategy = "fill_missing" /\ ~block.HasSignatureDelta

needsInjection_AnyStrategy(strategy, block) == ~block.HasSignatureDelta

needsInjection(strategy, block) ==
    CASE strategy = "always_replace" -> ~block.HasSignatureDelta
      [] strategy = "fill_missing" -> ~block.HasSignatureDelta
      [] OTHER -> FALSE

handleContentBlockStop(s, line, index, r) ==
    IF index \notin DOMAIN s.tb THEN Result(line, <<>>, s.tb, s.coll, s.calls)
    ELSE
      LET block == s.tb[index]
          tb2 == SetBlock(s.tb, index, [block EXCEPT !.Stopped = TRUE])
      IN  IF needsInjection(s.config.Strategy, [block EXCEPT !.Stopped = TRUE])
          THEN LET injectedLine == generateSignatureDeltaLine(index, r)
               IN  IF injectedLine # NoLine
                   THEN Result(line, <<injectedLine>>, tb2, s.coll, s.calls + 1)
                   ELSE Result(line, <<>>, tb2, s.coll, s.calls + 1)
          ELSE Result(line, <<>>, tb2, s.coll, s.calls)

\* Which branch of ProcessSSELine a line takes.
Route(line) ==
    IF ~IsDataLine(line) THEN "pass"
    ELSE IF line.k = "text" /\ line.txt \in {"", "[DONE]"} THEN "pass"
    ELSE LET event == UnmarshalEvent(line)
         IN  IF ~event.ok THEN "pass"
             ELSE IF event.Type \in {"content_block_start", "content_block_delta",
                                     "content_block_stop"}
             THEN event.Type
             ELSE "default"

\* The early returns of ProcessSSELine: the line as it came, no extra line.
returnLine_Rebuild(s, line) ==
    Result(IF IsDataLine(line) THEN [line EXCEPT !.pre = "data: "] ELSE line,
           <<>>, s.tb, s.coll, s.calls)

returnLine(s, line) == Result(line, <<>>, s.tb, s.coll, s.calls)

ProcessSSELine(s, line, r) ==
    LET route == Route(line)
        event == UnmarshalEvent(line)
    IN  CASE route = "pass" -> returnLine(s, line)
          [] route = "content_block_start" ->
               handleContentBlockStart(s, line, event.Index, event.HasContentBlock)
          [] route = "content_block_delta" ->
               handleContentBlockDelta(s, line, event.Index, event.HasDelta, r)
          [] route = "content_block_stop" ->
               handleContentBlockStop(s, line, event.Index, r)
          [] OTHER -> Result(line, <<>>, s.tb, s.coll, s.calls)

----------------------------------------------------------------------------
\* The stream as a state machine: one step is one call of ProcessSSELine.

Strategies == {"always_replace", "fill_missing", "disabled"}

\* The snapshots a stream may find: no signature, a signature with an empty
\* value, two signatures.
Pools ==
    { <<>>,
      <<CachedSignature(1, "", NoModel)>>,
      <<CachedSignature(1, SigA, NoModel), CachedSignature(2, SigB, "m1")>> }

\* Minimum length given to the collector of a stream.
StreamMinLength == 5

State == [config |-> config, tb |-> thinkingBlocks, coll |-> collector,
          calls |-> poolCalls]

Init ==
    /\ config \in [Strategy : Strategies, PoolFilter : {NilFilter}]
    /\ cachedSigs \in Pools
    /\ collector \in {NilCollector, NewSignatureCollector(StreamMinLength)}
    /\ thinkingBlocks = <<>>
    /\ inp = <<>>
    /\ rets = <<>>
    /\ poolCalls = 0
    /\ streamMu = NoThread
    /\ mu = NoThread
    /\ cacheMu = NoThread
    /\ cacheExpiry = ZeroTime
    /\ now = StartTime
    /\ rows = <<>>
    /\ marks = EmptyBag
    /\ threads = <<>>
    /\ hist = <<>>

Step(line, r) ==
    /\ \E res \in {ProcessSSELine(State, line, r)} :
          /\ inp' = Append(inp, line)
          /\ rets' = Append(rets, [line |-> res.line, extra |-> res.extra,
                                  err |-> res.err])
          /\ thinkingBlocks' = res.tb
          /\ collector' = res.coll
          /\ poolCalls' = res.calls
    /\ UNCHANGED <<config, cachedSigs, streamMu, mu, cacheMu, cacheExpiry, now,
                   rows, marks, threads, hist>>

PoolAnswers == GetRandomSignature(cachedSigs, config.PoolFilter)
NoAnswer == [err |-> TRUE, value |-> ""]

\* The lines of each branch.
LinesOf(route) == {line \in Lines : Route(line) = route}
PassLines == LinesOf("pass")
StartLines == LinesOf("content_block_start")
DeltaLines == LinesOf("content_block_delta")
StopLines == LinesOf("content_block_stop")
OtherLines == LinesOf("default")

\* A line that is no event: returned before the switch.
PassThrough ==
    /\ Len(inp) < MaxLines
    /\ \E line \in PassLines : Step(line, NoAnswer)

OnContentBlockStart ==
    /\ Len(inp) < MaxLines
    /\ \E line \in StartLines : Step(line, NoAnswer)

OnContentBlockDelta ==
    /\ Len(inp) < MaxLines
    /\ \E line \in DeltaLines, r \in PoolAnswers : Step(line, r)

OnContentBlockStop ==
    /\ Len(inp) < MaxLines
    /\ \E line \in StopLines, r \in PoolAnswers : Step(line, r)

OnOtherEvent ==
    /\ Len(inp) < MaxLines
    /\ \E line \in OtherLines : Step(line, NoAnswer)

Next ==
    \/ PassThrough
    \/ OnContentBlockStart
    \/ OnContentBlockDelta
    \/ OnContentBlockStop
    \/ OnOtherEvent

Spec == Init /\ [][Next]_vars

TypeOK ==
    /\ Len(inp) <= MaxLines
    /\ Len(rets) = Len(inp)

----------------------------------------------------------------------------
\* What a reader of the stream sees, and what the history of the input says.

Indexes == {0, 1}

\* The lines written downstream for the first k inputs: the extra lines of a
\* call go out before the line it returns.
RECURSIVE EmittedOf(_, _)
EmittedOf(rs, k) ==
    IF k = 0 THEN <<>>
    ELSE EmittedOf(rs, k - 1) \o rs[k].extra \o <<rs[k].line>>

Emitted(k) == EmittedOf(rets, k)

\* The lines written before the line returned for input k.
EmittedBefore(k) == Emitted(k - 1) \o rets[k].extra

EventType(line) ==
    IF line.pre # "" /\ line.k = "json" /\ HasKey(line.obj, "type")
    THEN Get(line.obj, "type").s ELSE ""
EventIndex(line) ==
    IF HasKey(line.obj, "index") THEN Get(line.obj, "index").n ELSE 0

IsThinkingStart(line, i) ==
    /\ EventType(line) = "content_block_start"
    /\ EventIndex(line) = i
    /\ HasKey(line.obj, "content_block")
    /\ StrField(Get(line.obj, "content_block").m, "type") = "thinking"

IsSignatureDelta(line) ==
    /\ EventType(line) = "content_block_delta"
    /\ HasKey(line.obj, "delta")
    /\ StrField(Get(line.obj, "delta").m, "type") = "signature_delta"

IsSignatureDeltaAt(line, i) == IsSignatureDelta(line) /\ EventIndex(line) = i

SignatureOf(line) == StrField(Get(line.obj, "delta").m, "signature")

IsStop(line, i) ==
    EventType(line) = "content_block_stop" /\ EventIndex(line) = i

\* What the input lines are, computed once for the lines of a stream.
InputClass ==
    [line \in Lines |->
        [start |-> {i \in Indexes : IsThinkingStart(line, i)},
         delta |-> {i \in Indexes : IsSignatureDeltaAt(line, i)},
         stop |-> {i \in Indexes : IsStop(line, i)},
         sig |-> IsSignatureDelta(line)]]

StartIn(k, i) == i \in InputClass[inp[k]].start
DeltaIn(k, i) == i \in InputClass[inp[k]].delta
StopIn(k, i) == i \in InputClass[inp[k]].stop
SigIn(k) == InputClass[inp[k]].sig

\* Position of the last thinking start of index i before input k, 0 if none.
RECURSIVE LastStart(_, _)
LastStart(k, i) ==
    IF k <= 1 THEN 0
    ELSE IF StartIn(k - 1, i) THEN k - 1
    ELSE LastStart(k - 1, i)

\* A signature_delta of index i came in between positions a and b.
DeltaBetween(a, b, i) == \E j \in (a + 1)..(b - 1) : DeltaIn(j, i)
StopBetween(a, b, i) == \E j \in (a + 1)..(b - 1) : StopIn(j, i)

\* Input k is the stop of a block of index i that was started as thinking.
StopOfThinking(k, i) == StopIn(k, i) /\ LastStart(k, i) # 0

\* A signature_delta of index i came in between that start and input k.
DeltaSinceStart(k, i) == DeltaBetween(LastStart(k, i), k, i)

\* A stop of index i came in since the last thinking start of index i.
StopSinceStart(k, i) == StopBetween(LastStart(k, i), k, i)

PoolValues == {cachedSigs[n].Value : n \in 1..Len(cachedSigs)}

\* The pool answers every call with a signature.
PoolYields == Len(cachedSigs) > 0 /\ "" \notin PoolValues

----------------------------------------------------------------------------
\* Claims about the stream processor.

\* The signature_delta lines of index i among the lines of q.
DeltasAt(q, i) == {n \in 1..Len(q) : IsSignatureDeltaAt(q[n], i)}

\* C1 as stated: with always_replace and a pool that yields, before every
\* stop of a started thinking block of index i the output holds exactly one
\* signature_delta of index i, and it carries a pool value.
C1_ExactlyOneSignatureDelta ==
    (config.Strategy = "always_replace" /\ PoolYields) =>
        \A i \in Indexes, k \in 1..Len(inp) :
            StopOfThinking(k, i) =>
                LET q == EmittedBefore(k)
                IN  /\ Cardinality(DeltasAt(q, i)) = 1
                    /\ \A n \in DeltasAt(q, i) : SignatureOf(q[n]) \in PoolValues

\* C1 amended: with always_replace and a pool that yields, before every stop
\* of a started thinking block of index i the output holds at least one
\* signature_delta of index i, and every signature_delta of index i before
\* that stop carries a pool value.
C1_AtLeastOneSignatureDelta ==
    (config.Strategy = "always_replace" /\ PoolYields) =>
        \A i \in Indexes, k \in 1..Len(inp) :
            StopOfThinking(k, i) =>
                LET q == EmittedBefore(k)
                IN  /\ Cardinality(DeltasAt(q, i)) >= 1
                    /\ \A n \in DeltasAt(q, i) : SignatureOf(q[n]) \in PoolValues

\* C1 witness: a started thinking block got an upstream signature_delta and
\* was stopped, under always_replace with a pool that yields.
C1_Witness ==
    /\ config.Strategy = "always_replace" /\ PoolYields
    /\ \E i \in Indexes, k \in 1..Len(inp) :
          StopOfThinking(k, i) /\ DeltaSinceStart(k, i)

\* The line of an input and the line returned for it are the same event: the
\* same line, or two signature_delta events of the same index.
SameEvent(a, b) ==
    \/ a = b
    \/ \E i \in Indexes : IsSignatureDeltaAt(a, i) /\ IsSignatureDeltaAt(b, i)

\* C2 as stated: every input line is returned once and in order, extra lines
\* are synthetic signature_delta lines returned with the stop of their index
\* (so written right before it), and over the whole stream at most one extra
\* line is produced per index.
C2_OneSyntheticLinePerBlock ==
    /\ Len(rets) = Len(inp)
    /\ \A k \in 1..Len(inp) :
          /\ SameEvent(inp[k], rets[k].line)
          /\ Len(rets[k].extra) <= 1
          /\ rets[k].extra # <<>> =>
                \E i \in Indexes : /\ StopIn(k, i)
                                   /\ IsSignatureDeltaAt(rets[k].extra[1], i)
    /\ \A i \in Indexes :
          Cardinality({k \in 1..Len(inp) :
                          StopIn(k, i) /\ rets[k].extra # <<>>}) <= 1

\* C3 as stated: with fill_missing and a pool that yields, before every stop
\* of a started thinking block of index i the output holds, after the start,
\* a signature_delta of index i with a non-empty signature.
C3_NonEmptySignatureObserved ==
    (config.Strategy = "fill_missing" /\ PoolYields) =>
        \A i \in Indexes, k \in 1..Len(inp) :
            StopOfThinking(k, i) =>
                \/ \E n \in 1..Len(rets[k].extra) :
                      /\ IsSignatureDeltaAt(rets[k].extra[n], i)
                      /\ SignatureOf(rets[k].extra[n]) # ""
                \/ \E j \in (LastStart(k, i) + 1)..(k - 1) :
                      /\ IsSignatureDeltaAt(rets[j].line, i)
                      /\ SignatureOf(rets[j].line) # ""

\* The synthetic line for index i and signature v, as the processor writes it.
SyntheticLine(i, v) ==
    JsonLine("data: ",
        << <<"delta", JObj(<< <<"signature", JStr(v)>>,
                              <<"type", JStr("signature_delta")>> >>)>>,
           <<"index", JNum(i)>>,
           <<"type", JStr("content_block_delta")>> >>)

\* C4: with fill_missing, the stop of a tracked thinking block of index i
\* gets a synthetic signature_delta of index i exactly when no
\* signature_delta of index i came in since the block's start and the pool
\* yields a signature; and an upstream signature_delta is returned unchanged.
C4_FillMissingInjectsIffNoDelta ==
    config.Strategy = "fill_missing" =>
        /\ \A i \in Indexes, k \in 1..Len(inp) :
              StopOfThinking(k, i) =>
                  /\ rets[k].extra # <<>> <=> (~DeltaSinceStart(k, i) /\ PoolYields)
                  /\ rets[k].extra # <<>> =>
                        \E v \in PoolValues : rets[k].extra = <<SyntheticLine(i, v)>>
        /\ \A k \in 1..Len(inp) :
              SigIn(k) =>
                  rets[k].line = inp[k] /\ rets[k].extra = <<>>

\* C4 witness: start(thinking, 0), stop(0) with SIG-A in the pool gave the
\* start, a synthetic delta carrying SIG-A, and the stop.
C4_Witness ==
    /\ config.Strategy = "fill_missing"
    /\ inp = <<BlockStart(0, ThinkingBlock), BlockStop(0)>>
    /\ Emitted(2) = <<BlockStart(0, ThinkingBlock), SyntheticLine(0, SigA),
                      BlockStop(0)>>

\* C5: with strategy disabled every line is returned as it came, nothing is
\* injected and the pool is never asked.
C5_DisabledIsIdentity ==
    config.Strategy = "disabled" =>
        /\ Emitted(Len(inp)) = inp
        /\ \A k \in 1..Len(inp) : rets[k].line = inp[k] /\ rets[k].extra = <<>>
        /\ poolCalls = 0

\* C5 witness: disabled, a collector attached, a pool that yields, and a
\* thinking block that got an upstream signature_delta and was stopped.
C5_Witness ==
    /\ config.Strategy = "disabled" /\ PoolYields /\ collector.present
    /\ \E k \in 1..Len(inp) : StopOfThinking(k, 0) /\ DeltaSinceStart(k, 0)

\* A line that ProcessSSELine does not read as an event: no data line, or a
\* data line whose payload is empty, [DONE] or no JSON.
IsQuiet(line) == line.pre = "" \/ line.k = "text"

NonDataLines == {line \in Lines : line.pre = ""}

Occurrences(q, line) == Cardinality({n \in 1..Len(q) : q[n] = line})

\* C6: a step on a quiet line returns the line itself with no extra line and
\* no error and leaves blocks, collector and pool alone, under every
\* strategy; no call returns an error; and every line that is no data line
\* occurs as often in the output as in the input.
C6_QuietLinesPassThrough ==
    [][ Len(inp') = Len(inp) + 1 =>
          /\ IsQuiet(inp'[Len(inp')]) =>
                /\ rets'[Len(inp')] = [line |-> inp'[Len(inp')], extra |-> <<>>,
                                       err |-> FALSE]
                /\ thinkingBlocks' = thinkingBlocks
                /\ collector' = collector
                /\ poolCalls' = poolCalls
          /\ \A k \in 1..Len(rets') : ~rets'[k].err
          /\ \A line \in NonDataLines :
                Occurrences(EmittedOf(rets', Len(rets')), line) = Occurrences(inp', line)
      ]_vars

\* C6 witness: two quiet lines went through unchanged while a block was open.
C6_Witness ==
    /\ 0 \in DOMAIN thinkingBlocks
    /\ Len(inp) = 3
    /\ {inp[2], inp[3]} \in {{EventLine, DoneLine}, {EmptyData, BadJson}}
    /\ Emitted(3) = inp

DeltaOf(line) == Get(line.obj, "delta").m
NotSignatureMember(mem) == mem[1] # "signature"

\* The event of line b is the event of line a with delta.signature set to v:
\* the same members in the same order, every member but delta the same, and
\* delta the same but for the value of signature, which stands where it
\* stood, or at the end of delta when a had none.
IsRewriteOf(b, a, v) ==
    /\ b.k = "json" /\ b.pre = "data: "
    /\ Len(b.obj) = Len(a.obj)
    /\ \A n \in 1..Len(a.obj) :
          /\ b.obj[n][1] = a.obj[n][1]
          /\ a.obj[n][1] # "delta" => b.obj[n] = a.obj[n]
    /\ SelectSeq(DeltaOf(b), NotSignatureMember)
          = SelectSeq(DeltaOf(a), NotSignatureMember)
    /\ HasKey(DeltaOf(b), "signature")
    /\ Get(DeltaOf(b), "signature") = JStr(v)
    /\ KeyPos(DeltaOf(b), "signature", 1) =
          IF HasKey(DeltaOf(a), "signature")
          THEN KeyPos(DeltaOf(a), "signature", 1)
          ELSE Len(DeltaOf(a)) + 1

\* C7: with always_replace and a pool that yields, a signature_delta is
\* returned as the same event with delta.signature set to a pool value and
\* every other member unchanged, with no extra line; and the stop of a
\* tracked thinking block that got a signature_delta injects nothing.
C7_ReplaceKeepsOtherFields ==
    (config.Strategy = "always_replace" /\ PoolYields) =>
        /\ \A k \in 1..Len(inp) :
              SigIn(k) =>
                  /\ rets[k].extra = <<>>
                  /\ \E v \in PoolValues : IsRewriteOf(rets[k].line, inp[k], v)
        /\ \A i \in Indexes, k \in 1..Len(inp) :
              (StopOfThinking(k, i) /\ DeltaSinceStart(k, i)) =>
                  rets[k].extra = <<>>

\* C7 witness: the upstream delta with one more member was rewritten to
\* SIG-BETA inside a thinking block, and the block was stopped.
C7_Witness ==
    /\ config.Strategy = "always_replace"
    /\ inp = <<BlockStart(0, ThinkingBlock), SigDeltaExtra(0, Upstream), BlockStop(0)>>
    /\ SignatureOf(rets[2].line) = SigB

\* C8: when the pool gives no signature (empty pool, or an empty value),
\* every line is returned as it came and nothing is injected, under every
\* strategy; and the state of every block is what the input alone says:
\* has_signature_delta and stopped are set as when the pool yields.
C8_PoolMissLeavesStreamIntact ==
    /\ ~PoolYields =>
          \A k \in 1..Len(inp) :
              rets[k] = [line |-> inp[k], extra |-> <<>>, err |-> FALSE]
    /\ \A i \in Indexes :
          /\ i \in DOMAIN thinkingBlocks <=> LastStart(Len(inp) + 1, i) # 0
          /\ i \in DOMAIN thinkingBlocks =>
                /\ thinkingBlocks[i].HasSignatureDelta
                      <=> DeltaSinceStart(Len(inp) + 1, i)
                /\ thinkingBlocks[i].Stopped <=> StopSinceStart(Len(inp) + 1, i)

\* C8 witness: always_replace asked the pool twice in vain, for a delta with
\* no block and for the stop of a block without delta.
C8_Witness ==
    /\ config.Strategy = "always_replace" /\ ~PoolYields
    /\ inp = <<SigDeltaTight(0, ""), BlockStart(0, ThinkingBlock), BlockStop(0)>>
    /\ poolCalls = 2
    /\ thinkingBlocks[0].Stopped /\ ~thinkingBlocks[0].HasSignatureDelta

\* C9: under every strategy, every line that is not a content_block_delta of
\* delta type signature_delta is returned as it came.
C9_OnlySignatureDeltaRewritten ==
    \A k \in 1..Len(inp) :
        ~SigIn(k) => rets[k].line = inp[k]

\* C9 witness: under always_replace with a pool that yields, a thinking
\* start, a thinking_delta and the stop went through.
C9_Witness ==
    /\ config.Strategy = "always_replace" /\ PoolYields
    /\ inp = <<BlockStart(0, ThinkingBlock), ThinkingDelta(0), BlockStop(0)>>
    /\ rets[3].extra # <<>>

\* The synthetic line as C10 states it: type, index, delta; in delta type,
\* signature.
ClaimedSyntheticLine(i, v) ==
    JsonLine("data: ",
        << <<"type", JStr("content_block_delta")>>,
           <<"index", JNum(i)>>,
           <<"delta", JObj(<< <<"type", JStr("signature_delta")>>,
                              <<"signature", JStr(v)>> >>)>> >>)

UpstreamSignatures ==
    [k \in 1..Len(inp) |-> IF SigIn(k) THEN SignatureOf(inp[k]) ELSE ""]

\* What Collect keeps of a non-empty signature handed to it.
Kept(v) == v # "" /\ Len(v) > collector.minLength

\* C11: with a collector attached, every signature_delta that carries a
\* non-empty signature is handed to Collect, under every strategy and for
\* every index, tracked or not; so the collector holds, in the order of the
\* stream, every such signature that is longer than its minimum length.
C11_EverySignatureDeltaCollected ==
    collector.present =>
        collector.signatures = SelectSeq(UpstreamSignatures, Kept)

----------------------------------------------------------------------------
\* The collector under concurrent callers.  A call of Collect is the length
\* test, Lock, the append (a read of c.signatures and a write of the longer
\* slice) and the deferred Unlock; GetCollected and Count are Lock, the body
\* and Unlock.  hist holds the calls that have returned, in that order.

\* Calls made on one collector.
MaxOps == 3

\* A string of n characters.
RECURSIVE Rep(_)
Rep(n) ==
    IF n <= 0 THEN ""
    ELSE IF n % 2 = 0 THEN LET half == Rep(n \div 2) IN half \o half
    ELSE "s" \o Rep(n - 1)

\* The minimum lengths given to NewSignatureCollector and the signatures
\* handed to Collect: around the given and around the default minimum.
MinLengths == {-1, 0, StreamMinLength}
CollectValues ==
    { "abc", "abcdef", Rep(StreamMinLength), Rep(StreamMinLength + 1),
      Rep(DefaultMinLength), Rep(DefaultMinLength + 1) }

CallerSets == { {"t1"}, {"t1", "t2"} }

NoList == [list |-> <<>>, shared |-> FALSE]
IdleCaller == [pc |-> "idle", op |-> "", arg |-> "", old |-> <<>>, n |-> 0,
               lo |-> 0, result |-> NoList]

\* An entry of hist: the call, its argument and what it returned.
Call(op, arg, n, list, lo, hi) ==
    [op |-> op, arg |-> arg, n |-> n, list |-> list, lo |-> lo, hi |-> hi]

\* The stream and the pool stand still while the collector is exercised.
StreamIdle ==
    /\ config = [Strategy |-> "disabled", PoolFilter |-> NilFilter]
    /\ thinkingBlocks = <<>>
    /\ inp = <<>>
    /\ rets = <<>>
    /\ poolCalls = 0
    /\ streamMu = NoThread

PoolIdle ==
    /\ cachedSigs = <<>>
    /\ cacheExpiry = ZeroTime
    /\ now = StartTime
    /\ cacheMu = NoThread
    /\ rows = <<>>
    /\ marks = EmptyBag

CollectorInit ==
    /\ \E minLength \in MinLengths :
          /\ collector = NewSignatureCollector(minLength)
          /\ hist = <<Call("NewSignatureCollector", "", minLength, <<>>, 0, 0)>>
    /\ threads \in {[t \in T |-> IdleCaller] : T \in CallerSets}
    /\ mu = NoThread
    /\ StreamIdle
    /\ PoolIdle

\* Calls begun so far: those that returned and those under way.
Busy == {t \in DOMAIN threads : threads[t].pc # "idle"}
OpsBegun == (Len(hist) - 1) + Cardinality(Busy)

\* Accepted Collect calls that have returned, and those begun.
AcceptedIn(h) == SelectSeq(h, LAMBDA e : e.op = "Collect" /\ e.n = 1)
Collecting == {t \in DOMAIN threads : threads[t].op = "Collect" /\ threads[t].pc # "idle"}

CollectorFrame == UNCHANGED <<poolVars, streamVars>>

SetCaller(t, c) == threads' = [threads EXCEPT ![t] = c]

\* Collect is called: a signature that is too short returns at once, before
\* the mutex is taken.
BeginCollect(t) ==
    /\ OpsBegun < MaxOps
    /\ threads[t].pc = "idle"
    /\ \E v \in CollectValues :
          IF belowMinLength(collector, v)
          THEN /\ hist' = Append(hist, Call("Collect", v, 0, <<>>, 0, 0))
               /\ UNCHANGED threads
          ELSE /\ SetCaller(t, [threads[t] EXCEPT !.pc = "lock",
                                                  !.op = "Collect", !.arg = v])
               /\ UNCHANGED hist
    /\ UNCHANGED <<collector, mu>>
    /\ CollectorFrame

BeginGetCollected(t) ==
    /\ OpsBegun < MaxOps
    /\ threads[t].pc = "idle"
    /\ SetCaller(t, [threads[t] EXCEPT !.pc = "lock", !.op = "GetCollected"])
    /\ UNCHANGED <<collector, mu, hist>>
    /\ CollectorFrame

\* lo: the accepted Collect calls that returned before Count was called.
BeginCount(t) ==
    /\ OpsBegun < MaxOps
    /\ threads[t].pc = "idle"
    /\ SetCaller(t, [threads[t] EXCEPT !.pc = "lock", !.op = "Count",
                                       !.lo = Len(AcceptedIn(hist))])
    /\ UNCHANGED <<collector, mu, hist>>
    /\ CollectorFrame

\* c.mu.Lock()
LockCollector(t) ==
    /\ threads[t].pc = "lock"
    /\ mutexFree(mu)
    /\ mu' = t
    /\ SetCaller(t, [threads[t] EXCEPT !.pc =
            CASE threads[t].op = "Collect" -> "read"
              [] threads[t].op = "Count" -> "count"
              [] OTHER -> "copy"])
    /\ UNCHANGED <<collector, hist>>
    /\ CollectorFrame

\* append reads the slice ...
AppendRead(t) ==
    /\ threads[t].pc = "read"
    /\ SetCaller(t, [threads[t] EXCEPT !.pc = "write",
                                       !.old = collector.signatures])
    /\ UNCHANGED <<collector, mu, hist>>
    /\ CollectorFrame

\* ... and c.signatures is assigned the longer one.
AppendWrite(t) ==
    /\ threads[t].pc = "write"
    /\ collector' = [collector EXCEPT
                        !.signatures = Append(threads[t].old, threads[t].arg)]
    /\ SetCaller(t, [threads[t] EXCEPT !.pc = "unlock", !.old = <<>>])
    /\ UNCHANGED <<mu, hist>>
    /\ CollectorFrame

CountBody(t) ==
    /\ threads[t].pc = "count"
    /\ SetCaller(t, [threads[t] EXCEPT !.pc = "unlock", !.n = Count(collector)])
    /\ UNCHANGED <<collector, mu, hist>>
    /\ CollectorFrame

CopyBody(t) ==
    /\ threads[t].pc = "copy"
    /\ SetCaller(t, [threads[t] EXCEPT !.pc = "unlock",
                                       !.result = GetCollected(collector)])
    /\ UNCHANGED <<collector, mu, hist>>
    /\ CollectorFrame

\* The deferred Unlock and the return.  hi: the accepted Collect calls begun
\* before Count returns.
UnlockCollector(t) ==
    /\ threads[t].pc = "unlock"
    /\ mu' = NoThread
    /\ hist' = Append(hist,
          CASE threads[t].op = "Collect" ->
                   Call("Collect", threads[t].arg, 1, <<>>, 0, 0)
            [] threads[t].op = "Count" ->
                   Call("Count", "", threads[t].n, <<>>, threads[t].lo,
                        Len(AcceptedIn(hist)) + Cardinality(Collecting))
            [] OTHER ->
                   Call("GetCollected", "", 0, threads[t].result.list, 0, 0))
    /\ SetCaller(t, [IdleCaller EXCEPT !.result = threads[t].result])
    /\ UNCHANGED collector
    /\ CollectorFrame

\* The caller writes into the list GetCollected gave it.
Changed == "changed"
ModifyResult(t) ==
    /\ threads[t].pc = "idle"
    /\ threads[t].result.list # <<>>
    /\ threads[t].result.list[1] # Changed
    /\ SetCaller(t, [threads[t] EXCEPT !.result.list[1] = Changed])
    /\ collector' = IF threads[t].result.shared
                    THEN [collector EXCEPT !.signatures[1] = Changed]
                    ELSE collector
    /\ UNCHANGED <<mu, hist>>
    /\ CollectorFrame

CollectorNext ==
    \/ \E t \in DOMAIN threads : BeginCollect(t)
    \/ \E t \in DOMAIN threads : BeginGetCollected(t)
    \/ \E t \in DOMAIN threads : BeginCount(t)
    \/ \E t \in DOMAIN threads : LockCollector(t)
    \/ \E t \in DOMAIN threads : AppendRead(t)
    \/ \E t \in DOMAIN threads : AppendWrite(t)
    \/ \E t \in DOMAIN threads : CountBody(t)
    \/ \E t \in DOMAIN threads : CopyBody(t)
    \/ \E t \in DOMAIN threads : UnlockCollector(t)
    \/ \E t \in DOMAIN threads : ModifyResult(t)

CollectorSpec == CollectorInit /\ [][CollectorNext]_vars

----------------------------------------------------------------------------
\* Claims about the collector.

\* The minimum length in force, from the argument of the constructor.
EffectiveMinLength ==
    IF hist[1].n <= 0 THEN DefaultMinLength ELSE hist[1].n

\* The arguments of the Collect calls of history h that are longer than the
\* minimum length, in the order of the calls.
RECURSIVE LongArgs(_)
LongArgs(h) ==
    IF h = <<>> THEN <<>>
    ELSE LET e == h[Len(h)]
             before == LongArgs(SubSeq(h, 1, Len(h) - 1))
         IN  IF e.op = "Collect" /\ Len(e.arg) > EffectiveMinLength
             THEN Append(before, e.arg) ELSE before

\* C12: after any sequence of Collect calls made one after the other,
\* GetCollected is the arguments longer than min_length, in call order and
\* with repetitions; the others are discarded; min_length <= 0 means 350.
C12_CollectedIsLongArgsInOrder ==
    Cardinality(DOMAIN threads) = 1 =>
        /\ Busy = {} => collector.signatures = LongArgs(hist)
        /\ \A k \in 1..Len(hist) :
              hist[k].op = "GetCollected" =>
                  hist[k].list = LongArgs(SubSeq(hist, 1, k - 1))

\* C12 witness: min_length 5, Collect("abcdef"), Collect("abc"), and
\* GetCollected has returned ["abcdef"].
C12_Witness ==
    /\ Len(hist) = 4
    /\ hist[1].n = 5
    /\ hist[2].op = "Collect" /\ hist[2].arg = "abcdef"
    /\ hist[3].op = "Collect" /\ hist[3].arg = "abc"
    /\ hist[4].op = "GetCollected" /\ hist[4].list = <<"abcdef">>

\* The accepted Collect calls with argument v whose append is done.
Applied(v) ==
    Occurrences([k \in 1..Len(AcceptedIn(hist)) |-> AcceptedIn(hist)[k].arg], v)
    + Cardinality({t \in Collecting :
                      threads[t].pc = "unlock" /\ threads[t].arg = v})

IsPrefix(a, b) == Len(a) <= Len(b) /\ SubSeq(b, 1, Len(a)) = a

\* C13: under any interleaving of Collect, GetCollected and Count the
\* collector holds each accepted value once per accepted call and nothing
\* else; Count returns a number between the accepted calls that had returned
\* when it was called and those begun when it returns; a list GetCollected
\* returned is what the collector held, whatever the caller wrote into it.
C13_CollectorThreadSafe ==
    /\ \A i \in 1..Len(collector.signatures) :
          collector.signatures[i] \in CollectValues
    /\ \A v \in CollectValues : Occurrences(collector.signatures, v) = Applied(v)
    /\ \A k \in 1..Len(hist) :
          /\ hist[k].op = "Count" =>
                hist[k].lo <= hist[k].n /\ hist[k].n <= hist[k].hi
          /\ hist[k].op = "GetCollected" =>
                IsPrefix(hist[k].list, collector.signatures)

\* C13 witness: with two callers, a Collect landed while a Count was under
\* way, and a caller wrote into the list it got while the collector kept
\* its own.
C13_Witness ==
    /\ Cardinality(DOMAIN threads) = 2
    /\ \E k \in 1..Len(hist) : hist[k].op = "Count" /\ hist[k].lo < hist[k].n
    /\ \E t \in DOMAIN threads :
          /\ threads[t].result.list # <<>>
          /\ threads[t].result.list[1] = Changed
          /\ collector.signatures[1] # Changed

----------------------------------------------------------------------------
\* The signatures table and the repository.  rows[id] is the row of that id
\* (ids are given in sequence); a soft-deleted row stays, with DeletedAt the
\* time of its deletion (ZeroTime: deleted_at is null).
\* Every repository call is one statement: it reads or writes the table at
\* one instant.

\* computeSignatureHash: the hex SHA-256 of the value, one hash per value.
computeSignatureHash(value) == <<"sha256", value>>

Signature(value, model, source, status, account) ==
    [Value |-> value, Hash |-> computeSignatureHash(value), Model |-> model,
     Source |-> source, Status |-> status, UseCount |-> 0, Account |-> account,
     DeletedAt |-> ZeroTime]

NoAccount == 0
Live_WithDeleted(rws) == DOMAIN rws
Live(rws) == {id \in DOMAIN rws : rws[id].DeletedAt = ZeroTime}

\* ExistsByHash, ExistsByHashes: DeletedAtIsNil.
ExistsByHash(rws, hash) == \E id \in Live(rws) : rws[id].Hash = hash

\* Create, BatchCreate: hash is UNIQUE in the table, deleted rows included;
\* a violation fails the whole statement.
CanInsert(rws, sigs) ==
    /\ \A n \in 1..Len(sigs) : \A id \in DOMAIN rws : rws[id].Hash # sigs[n].Hash
    /\ \A n, k \in 1..Len(sigs) : n # k => sigs[n].Hash # sigs[k].Hash

\* GetByID as a bug would have it: the row if it is there.
GetByID_Any(rws, id) == id \in DOMAIN rws

\* GetByID: the row if it is there and not deleted.
GetByID(rws, id) == id \in Live(rws)

\* GetByHash: the row of the hash if there is one that is not deleted.
GetByHash(rws, hash) == {id \in Live(rws) : rws[id].Hash = hash}

\* List: the rows that are not deleted and pass the filter (its status,
\* source and account, where given); their order and the page are left out.
NoListFilter == [nil |-> TRUE, Status |-> "", Source |-> "", Account |-> NoAccount]
ListFilters ==
    {NoListFilter}
    \cup { [nil |-> FALSE, Status |-> st, Source |-> src, Account |-> a] :
             st \in {"", "active"}, src \in {"", "manual"}, a \in {NoAccount, 1} }
List(rws, filter) ==
    {id \in Live(rws) :
        \/ filter.nil
        \/ /\ filter.Status # "" => rws[id].Status = filter.Status
           /\ filter.Source # "" => rws[id].Source = filter.Source
           /\ filter.Account # NoAccount => rws[id].Account = filter.Account}

\* Update: UpdateOneID sets status, use_count and model of the row of sig.ID.
Update(rws, id, sig) ==
    [rws EXCEPT ![id] = [@ EXCEPT !.Status = sig.Status, !.Model = sig.Model,
                                  !.UseCount = sig.UseCount]]

\* Delete: UpdateOneID(id).SetDeletedAt(time.Now()), whether the row is
\* deleted already or not.  BatchDelete and DeleteByAccountID: the same for
\* the rows of the set that are not deleted.
SoftDelete(rws, ids, at) ==
    [id \in DOMAIN rws |-> IF id \in ids THEN [rws[id] EXCEPT !.DeletedAt = at]
                           ELSE rws[id]]
OfAccount_All(rws, account) == Live(rws)
OfAccount(rws, account) == {id \in Live(rws) : rws[id].Account = account}

\* IncrementUseCount: UpdateOneID(id).AddUseCount(1).
IncrementUseCount(rws, id) == [rws EXCEPT ![id].UseCount = @ + 1]

\* ListActive(limit): the active rows that are not deleted, by use_count
\* descending, at most limit of them.  The order among equal counts is the
\* database's: any.
Active_AnyStatus(rws) == Live(rws)
Active(rws) == {id \in Live(rws) : rws[id].Status = "active"}
RECURSIVE Orders(_, _)
Orders(rws, ids) ==
    IF ids = {} THEN {<<>>}
    ELSE UNION { {<<id>> \o rest : rest \in Orders(rws, ids \ {id})} :
                 id \in {i \in ids : \A j \in ids : rws[j].UseCount <= rws[i].UseCount} }
ListActive(rws, limit) ==
    { IF limit > 0 /\ Len(order) > limit THEN SubSeq(order, 1, limit) ELSE order :
      order \in Orders(rws, Active(rws)) }

\* reloadCache: the cache format of a list of rows.
ToCache(rws, order) ==
    [n \in 1..Len(order) |->
        CachedSignature(order[n], rws[order[n]].Value, rws[order[n]].Model)]

----------------------------------------------------------------------------
\* The pool service and its callers.  A reader runs GetRandomSignature; an
\* administrator runs a mutating handler of SignatureHandler, which calls
\* the service, then InvalidateCache, then answers.
\*
\* Here hist is a record: last is the event of the latest step, if that
\* step made one (the answer of a GetRandomSignature call, a ListActive call
\* of reloadCache, or the response of a handler), calls the number of calls
\* begun, and the rest is what has happened since the latest InvalidateCache
\* returned:
\*   pending  no GetRandomSignature call has begun since;
\*   fail     a ListActive call failed since;
\*   lists    the lists ListActive returned since;
\*   gone     the rows a completed handler deleted or took out of the active
\*            status, and that no later write made active again;
\*   dirty    those of gone with a failed ListActive call since their handler
\*            completed.
\* A reader carries the same in its field since, counted from the
\* InvalidateCache before its call (next: it is the first call begun after
\* that one; own: it has called ListActive itself), and loaded: its first
\* test found the cache empty or expired, it has not left reloadCache yet,
\* and a ListActive call has succeeded since that test.

\* Calls begun in one run, readers' and administrators' together.
MaxCalls == 3

\* cacheTTL, in minutes, and the limit given to ListActive.
cacheTTL == 5
ListActiveLimit == 1000

SigC == "SIG-C"
Statuses == {"active", "disabled", "expired"}

\* The catalogues a run starts from.
Catalogues ==
    { << Signature(SigA, "m1", "manual", "active", 1) >>,
      << Signature(SigA, "m1", "manual", "active", 1),
         Signature(SigB, NoModel, "imported", "active", NoAccount) >> }

\* The filters a reader passes.
PoolFilters ==
    { NilFilter, [nil |-> FALSE, Models |-> {}], [nil |-> FALSE, Models |-> {"m2"}] }

\* The requests an administrator sends.
Request(op, id, ids, values, status, model) ==
    [op |-> op, id |-> id, ids |-> ids, values |-> values, status |-> status,
     model |-> model]
Requests ==
    { Request("Create", 0, {}, <<v>>, "", "m2") : v \in {SigA, SigC} }
    \cup { Request("BatchImport", 0, {}, <<SigA, SigC>>, "", NoModel) }
    \cup { Request("Update", 1, {}, <<>>, st, "m1") : st \in Statuses }
    \cup { Request("Delete", id, {}, <<>>, "", "") : id \in {1, 2} }
    \cup { Request("BatchDelete", 0, {1, 2}, <<>>, "", "") }
    \cup { Request("DeleteByAccountID", 1, {}, <<>>, "", "") }

\* A reader and an administrator that are not in a call.
NoneSince == [next |-> FALSE, own |-> FALSE, fail |-> FALSE, lists |-> {},
              gone |-> {}, dirty |-> {}, loaded |-> FALSE]
IdleReader == [kind |-> "reader", pc |-> "idle", sigs |-> <<>>, since |-> NoneSince,
               cancelled |-> FALSE]
IdleAdmin == [kind |-> "admin", pc |-> "idle",
              req |-> Request("", 0, {}, <<>>, "", ""),
              sig |-> <<>>, out |-> {}, trace |-> <<>>]

\* No event, and hist after a step that made none.
NoEvent == [op |-> "none"]
Quiet == [hist EXCEPT !.last = NoEvent]

\* The pool as NewSignaturePoolService leaves it, over a catalogue.
PoolStart ==
    /\ rows \in Catalogues
    /\ cachedSigs = <<>>
    /\ cacheExpiry = ZeroTime
    /\ now = StartTime
    /\ cacheMu = NoThread
    /\ marks = EmptyBag
    /\ hist = [last |-> NoEvent, calls |-> 0, pending |-> FALSE,
               fail |-> FALSE, lists |-> {}, gone |-> {}, dirty |-> {}]
    /\ collector = NilCollector
    /\ mu = NoThread
    /\ StreamIdle

PoolInit ==
    /\ PoolStart
    /\ threads = [t \in {"r1", "r2", "a1"} |->
                     IF t = "a1" THEN IdleAdmin ELSE IdleReader]

PoolFrame == UNCHANGED <<collector, mu, streamVars>>

\* time.Now() moves on by the TTL.  It is moved while the cache has not
\* expired: the code reads the clock only to compare it with the expiry.
Tick ==
    /\ now < cacheExpiry
    /\ now' = now + cacheTTL
    /\ hist' = Quiet
    /\ UNCHANGED <<cachedSigs, cacheExpiry, cacheMu, rows, marks, threads>>
    /\ PoolFrame

SetThread(t, c) == threads' = [threads EXCEPT ![t] = c]

\* The test of the cache, as a bug would have it: the expiry is not read.
cacheFresh_NoExpiry(sigs, expiry, t) == Len(sigs) > 0

\* The test of getCachedSignatures and of reloadCache: something is cached
\* and time.Now() is before the expiry.
cacheFresh(sigs, expiry, t) == Len(sigs) > 0 /\ t < expiry

\* What reloadCache returns when ListActive fails, as a bug would have it.
staleOnError_Drop(sigs) == <<>>

\* What reloadCache returns when ListActive fails: the cache as it is.
staleOnError(sigs) == sigs

\* GetPoolSize: the length of the snapshot, read under the read lock.
GetPoolSize(sigs) == Len(sigs)

\* InvalidateCache, as a bug would have it: the expiry stays.
InvalidateCache_Keep(expiry) == expiry

\* InvalidateCache: the new expiry.
InvalidateCache(expiry) == ZeroTime

\* GetRandomSignature is called.
BeginGetRandomSignature(t) ==
    /\ threads[t].kind = "reader"
    /\ threads[t].pc = "idle"
    /\ SetThread(t, [IdleReader EXCEPT
                       !.pc = "cached",
                       !.since = [next |-> hist.pending, own |-> FALSE,
                                  fail |-> hist.fail, lists |-> hist.lists,
                                  gone |-> hist.gone, dirty |-> hist.dirty,
                                  loaded |-> FALSE]])
    /\ hist' = [Quiet EXCEPT !.calls = @ + 1, !.pending = FALSE, !.fail = FALSE,
                             !.lists = {}]
    /\ UNCHANGED poolVars
    /\ PoolFrame

\* getCachedSignatures: under the read lock, which waits for a writer.
getCachedSignatures(t) ==
    /\ threads[t].pc = "cached"
    /\ cacheMu = NoThread
    /\ IF cacheFresh(cachedSigs, cacheExpiry, now)
       THEN SetThread(t, [threads[t] EXCEPT !.pc = "draw", !.sigs = cachedSigs])
       ELSE SetThread(t, [threads[t] EXCEPT !.pc = "lock"])
    /\ hist' = Quiet
    /\ UNCHANGED poolVars
    /\ PoolFrame

\* reloadCache: s.cacheMu.Lock()
LockCache(t) ==
    /\ threads[t].pc = "lock"
    /\ cacheMu = NoThread
    /\ cacheMu' = t
    /\ SetThread(t, [threads[t] EXCEPT !.pc = "reload"])
    /\ hist' = Quiet
    /\ UNCHANGED <<cachedSigs, cacheExpiry, now, rows, marks>>
    /\ PoolFrame

\* Thread t has called ListActive, which failed or returned list: what the
\* readers that have no snapshot yet, and hist, note of it.
Waiting(th, v) == th[v].kind = "reader" /\ th[v].pc \in {"cached", "lock", "reload"}
Listed(th, t, ok, list) ==
    [v \in DOMAIN th |->
        IF ~Waiting(th, v) THEN th[v]
        ELSE LET was == th[v].since
             IN  [th[v] EXCEPT !.since =
                    [next |-> was.next,
                     own |-> was.own \/ v = t,
                     fail |-> was.fail \/ (was.next /\ ~ok),
                     lists |-> IF was.next /\ ok THEN was.lists \cup {list}
                               ELSE was.lists,
                     gone |-> was.gone,
                     dirty |-> IF ok THEN was.dirty ELSE was.gone,
                     loaded |-> th[v].pc # "cached" /\ (was.loaded \/ ok)]]]
Loaded(h, t, ok, list, sigs) ==
    [h EXCEPT !.last = [op |-> "load", t |-> t, ok |-> ok, list |-> list,
                        sigs |-> sigs],
              !.fail = @ \/ (h.pending /\ ~ok),
              !.lists = IF h.pending /\ ok THEN @ \cup {list} ELSE @,
              !.dirty = IF ok THEN @ ELSE h.gone]

\* What a reload leaves of the list the cache held, as a bug would have it:
\* the new entries are written into the old list.
oldSnapshot_Overwritten(held, list) == list

\* What a reload leaves of the list the cache held: reloadCache makes a new
\* list and assigns it to s.cachedSigs, the old one is as it was.
oldSnapshot(held, list) == held

\* The callers after a reload that stored list: those that hold the list
\* the cache held go on with what the reload has left of it.
Swapped(th, t, list) ==
    [v \in DOMAIN th |->
        IF v # t /\ th[v].kind = "reader" /\ th[v].pc = "draw"
           /\ th[v].sigs = cachedSigs
        THEN [th[v] EXCEPT !.sigs = oldSnapshot(@, list)]
        ELSE th[v]]

\* reloadCache under the lock: the second test, ListActive, the new cache
\* and the deferred Unlock.
reloadCache(t) ==
    /\ threads[t].pc = "reload"
    /\ cacheMu' = NoThread
    /\ IF cacheFresh(cachedSigs, cacheExpiry, now)
       THEN /\ SetThread(t, [threads[t] EXCEPT !.pc = "draw", !.sigs = cachedSigs,
                                                !.since.loaded = FALSE])
            /\ hist' = Quiet
            /\ UNCHANGED <<cachedSigs, cacheExpiry>>
       ELSE \/ /\ threads' = [Listed(threads, t, FALSE, <<>>) EXCEPT
                                ![t].pc = "draw",
                                ![t].sigs = staleOnError(cachedSigs),
                                ![t].since.loaded = FALSE]
               /\ hist' = Loaded(hist, t, FALSE, <<>>, staleOnError(cachedSigs))
               /\ UNCHANGED <<cachedSigs, cacheExpiry>>
            \/ \E order \in ListActive(rows, ListActiveLimit) :
                  LET list == ToCache(rows, order)
                  IN  /\ cachedSigs' = list
                      /\ cacheExpiry' = now + cacheTTL
                      /\ threads' = [Swapped(Listed(threads, t, TRUE, list), t, list)
                                       EXCEPT
                                       ![t].pc = "draw", ![t].sigs = list,
                                       ![t].since.loaded = FALSE]
                      /\ hist' = Loaded(hist, t, TRUE, list, list)
    /\ UNCHANGED <<now, rows, marks>>
    /\ PoolFrame

\* The context GetRandomSignature gives to MarkUsed, as a bug would have
\* it: the caller's.
MarkContext_Callers(t) == t

\* The context GetRandomSignature gives to MarkUsed: context.Background(),
\* which nothing cancels.  Any other context is named by the caller whose
\* call it belongs to.
Background == "background"
MarkContext(t) == Background
Cancelled(ctx) == ctx # Background /\ threads[ctx].cancelled

\* The rest of GetRandomSignature with the filter it was given: the filter,
\* the draw under s.cacheMu, the start of MarkUsed and the answer.
Answer(t, ok, id, value, filter) ==
    [op |-> "answer", t |-> t, ok |-> ok, sigs |-> threads[t].sigs, id |-> id,
     value |-> value, filter |-> filter, since |-> threads[t].since]
Draw(t) ==
    /\ threads[t].pc = "draw"
    /\ \E filter \in PoolFilters :
          LET sigs == threads[t].sigs
              filtered == filterSignatures(sigs, filter)
          IN  IF Len(sigs) = 0 \/ Len(filtered) = 0
              THEN /\ hist' = [hist EXCEPT !.last = Answer(t, FALSE, 0, "", filter)]
                   /\ UNCHANGED marks
              ELSE /\ cacheMu = NoThread
                   /\ \E idx \in 1..Len(filtered) :
                         /\ marks' = marks (+) SetToBag({[ctx |-> MarkContext(t),
                                                           id |-> filtered[idx].ID]})
                         /\ hist' = [hist EXCEPT !.last =
                                        Answer(t, TRUE, filtered[idx].ID,
                                               filtered[idx].Value, filter)]
    /\ SetThread(t, IdleReader)
    /\ UNCHANGED <<cachedSigs, cacheExpiry, now, cacheMu, rows>>
    /\ PoolFrame

\* The caller of a GetRandomSignature call that has returned cancels the
\* context it gave to the call, while a MarkUsed goroutine is pending.
CancelContext(t) ==
    /\ threads[t].kind = "reader"
    /\ threads[t].pc = "idle"
    /\ ~threads[t].cancelled
    /\ marks # EmptyBag
    /\ SetThread(t, [threads[t] EXCEPT !.cancelled = TRUE])
    /\ hist' = Quiet
    /\ UNCHANGED poolVars
    /\ PoolFrame

\* A MarkUsed goroutine runs: IncrementUseCount with its context, which
\* fails if the context is cancelled and may fail otherwise; a failure is
\* logged and dropped.
MarkUsed ==
    /\ \E mark \in BagToSet(marks) :
          /\ marks' = marks (-) SetToBag({mark})
          /\ \/ /\ ~Cancelled(mark.ctx)
                /\ rows' = IncrementUseCount(rows, mark.id)
                /\ hist' = [hist EXCEPT !.last = [op |-> "mark", ok |-> TRUE,
                                                  mark |-> mark]]
             \/ /\ rows' = rows
                /\ hist' = [hist EXCEPT !.last = [op |-> "mark", ok |-> FALSE,
                                                  mark |-> mark]]
    /\ UNCHANGED <<cachedSigs, cacheExpiry, now, cacheMu, threads>>
    /\ PoolFrame

\* An entry of the trace of a handler: a call it made and whether it
\* succeeded; "service" is the return of the service call, "response" the
\* answer sent.
Made(call, ok) == [call |-> call, ok |-> ok]
Response(t, req, trace, ok) ==
    [op |-> "response", t |-> t, req |-> req, ok |-> ok,
     trace |-> Append(trace, Made("response", ok))]

\* What a handler does after the service call, as a bug would have it: it
\* answers at once.
afterService_Skip(ok) == "idle"

\* What a handler does after the service call: on an error it answers, on
\* success it goes on to InvalidateCache.
afterService(ok) == IF ok THEN "invalidate" ELSE "idle"

\* The rows of ids are active again: no reader holds them for gone.
Forget(th, ids) ==
    [v \in DOMAIN th |->
        IF th[v].kind # "reader" THEN th[v]
        ELSE [th[v] EXCEPT !.since.gone = @ \ ids, !.since.dirty = @ \ ids]]

\* Calls begun by this step of thread t.
Begun(t) == IF threads[t].pc = "idle" THEN 1 ELSE 0

\* The handler of request req goes on to its write: the service call is
\* under way at pc "write" with sig to be written.
Proceed(t, req, trace, sig) ==
    /\ SetThread(t, [IdleAdmin EXCEPT !.pc = "write", !.req = req, !.sig = sig,
                                      !.trace = trace])
    /\ hist' = [Quiet EXCEPT !.calls = @ + Begun(t)]

\* The service call of the handler has returned, having taken the rows of
\* out out of the pool and put those of back into it again.
Return(t, req, trace, ok, out, back) ==
    LET full == Append(trace, Made("service", ok))
    IN  /\ threads' = [Forget(threads, back) EXCEPT
                         ![t] = IF afterService(ok) = "invalidate"
                                THEN [IdleAdmin EXCEPT !.pc = "invalidate",
                                                       !.req = req, !.out = out,
                                                       !.trace = full]
                                ELSE IdleAdmin]
        /\ hist' = [hist EXCEPT
                      !.calls = @ + Begun(t),
                      !.gone = @ \ back,
                      !.dirty = @ \ back,
                      !.last = IF afterService(ok) = "invalidate" THEN NoEvent
                               ELSE Response(t, req, full, ok)]

\* A handler is entered by an idle administrator.
CanEnter(t) == threads[t].kind = "admin" /\ threads[t].pc = "idle"

AdminFrame ==
    /\ UNCHANGED <<cachedSigs, cacheExpiry, now, cacheMu, marks>>
    /\ PoolFrame

\* Create: ExistsByHash, then (at pc "write") repo.Create.
HandleCreate(t) ==
    /\ CanEnter(t)
    /\ \E req \in Requests :
          /\ req.op = "Create"
          /\ \/ Return(t, req, <<Made("ExistsByHash", FALSE)>>, FALSE, {}, {})
             \/ IF ExistsByHash(rows, computeSignatureHash(req.values[1]))
                THEN Return(t, req, <<Made("ExistsByHash", TRUE)>>, FALSE, {}, {})
                ELSE Proceed(t, req, <<Made("ExistsByHash", TRUE)>>,
                             <<Signature(req.values[1], req.model, "manual",
                                         "active", NoAccount)>>)
    /\ UNCHANGED rows
    /\ AdminFrame

\* BatchImport: ExistsByHashes, then BatchCreate of the values not found,
\* if there is any.
HandleBatchImport(t) ==
    /\ CanEnter(t)
    /\ \E req \in Requests :
          /\ req.op = "BatchImport"
          /\ \/ Return(t, req, <<Made("ExistsByHashes", FALSE)>>, FALSE, {}, {})
             \/ LET isNew(v) == ~ExistsByHash(rows, computeSignatureHash(v))
                    newSigs == [n \in 1..Len(SelectSeq(req.values, isNew)) |->
                                   Signature(SelectSeq(req.values, isNew)[n],
                                             req.model, "imported", "active",
                                             NoAccount)]
                IN  IF newSigs = <<>>
                    THEN Return(t, req, <<Made("ExistsByHashes", TRUE)>>, TRUE,
                                {}, {})
                    ELSE Proceed(t, req, <<Made("ExistsByHashes", TRUE)>>, newSigs)
    /\ UNCHANGED rows
    /\ AdminFrame

\* Update: the service reads the row with GetByID, sets status and model in
\* what it read, then (at pc "write") hands it to repo.Update.
HandleUpdate(t) ==
    /\ CanEnter(t)
    /\ \E req \in Requests :
          /\ req.op = "Update"
          /\ \/ Return(t, req, <<Made("GetByID", FALSE)>>, FALSE, {}, {})
             \/ /\ GetByID(rows, req.id)
                /\ Proceed(t, req, <<Made("GetByID", TRUE)>>,
                           <<[rows[req.id] EXCEPT !.Status = req.status,
                                                  !.Model = req.model]>>)
    /\ UNCHANGED rows
    /\ AdminFrame

\* The write of Create, BatchImport and Update; it fails as a whole.
ServiceWrite(t) ==
    /\ threads[t].pc = "write"
    /\ LET req == threads[t].req
           sig == threads[t].sig
           call == CASE req.op = "Create" -> "Create"
                     [] req.op = "BatchImport" -> "BatchCreate"
                     [] OTHER -> "Update"
           back == IF req.op = "Update" /\ req.status = "active"
                   THEN {req.id} \cap Live(rows) ELSE {}
           out == IF req.op = "Update" /\ req.status # "active"
                  THEN {req.id} ELSE {}
       IN  \/ /\ Return(t, req, Append(threads[t].trace, Made(call, FALSE)),
                        FALSE, {}, {})
              /\ UNCHANGED rows
           \/ /\ IF req.op = "Update"
                 THEN rows' = Update(rows, req.id, sig[1])
                 ELSE CanInsert(rows, sig) /\ rows' = rows \o sig
              /\ Return(t, req, Append(threads[t].trace, Made(call, TRUE)),
                        TRUE, out, back)
    /\ AdminFrame

\* Delete, BatchDelete, DeleteByAccountID: one statement each.  Delete fails
\* for an id that is not in the table; each fails when the database does.
HandleDelete(t) ==
    /\ CanEnter(t)
    /\ \E req \in Requests :
          /\ req.op = "Delete"
          /\ \/ /\ Return(t, req, <<Made("Delete", FALSE)>>, FALSE, {}, {})
                /\ UNCHANGED rows
             \/ /\ req.id \in DOMAIN rows
                /\ rows' = SoftDelete(rows, {req.id}, now)
                /\ Return(t, req, <<Made("Delete", TRUE)>>, TRUE, {req.id}, {})
    /\ AdminFrame

HandleBatchDelete(t) ==
    /\ CanEnter(t)
    /\ \E req \in Requests :
          /\ req.op = "BatchDelete"
          /\ \/ /\ Return(t, req, <<Made("BatchDelete", FALSE)>>, FALSE, {}, {})
                /\ UNCHANGED rows
             \/ /\ rows' = SoftDelete(rows, req.ids \cap Live(rows), now)
                /\ Return(t, req, <<Made("BatchDelete", TRUE)>>, TRUE,
                          req.ids \cap DOMAIN rows, {})
    /\ AdminFrame

HandleDeleteByAccountID(t) ==
    /\ CanEnter(t)
    /\ \E req \in Requests :
          /\ req.op = "DeleteByAccountID"
          /\ \/ /\ Return(t, req, <<Made("DeleteByAccountID", FALSE)>>, FALSE,
                          {}, {})
                /\ UNCHANGED rows
             \/ /\ rows' = SoftDelete(rows, OfAccount(rows, req.id), now)
                /\ Return(t, req, <<Made("DeleteByAccountID", TRUE)>>, TRUE,
                          OfAccount(rows, req.id), {})
    /\ AdminFrame

\* The handler calls InvalidateCache and sends its answer.
Invalidate(t) ==
    /\ threads[t].pc = "invalidate"
    /\ cacheMu = NoThread
    /\ cacheExpiry' = InvalidateCache(cacheExpiry)
    /\ SetThread(t, IdleAdmin)
    /\ hist' = [hist EXCEPT
                  !.last = Response(t, threads[t].req,
                                    Append(threads[t].trace,
                                           Made("InvalidateCache", TRUE)), TRUE),
                  !.pending = TRUE,
                  !.fail = FALSE,
                  !.lists = {},
                  !.gone = @ \cup threads[t].out,
                  !.dirty = @ \ threads[t].out]
    /\ UNCHANGED <<cachedSigs, now, cacheMu, rows, marks>>
    /\ PoolFrame

\* The pool with two readers and an administrator who updates and deletes,
\* while the clock moves; the MarkUsed goroutines stay pending.
PoolNext ==
    \/ Tick
    \/ hist.calls < MaxCalls /\ \E t \in DOMAIN threads : BeginGetRandomSignature(t)
    \/ \E t \in DOMAIN threads : getCachedSignatures(t)
    \/ \E t \in DOMAIN threads : LockCache(t)
    \/ \E t \in DOMAIN threads : reloadCache(t)
    \/ \E t \in DOMAIN threads : Draw(t)
    \/ hist.calls < MaxCalls /\ \E t \in DOMAIN threads : HandleUpdate(t)
    \/ \E t \in DOMAIN threads : ServiceWrite(t)
    \/ hist.calls < MaxCalls /\ \E t \in DOMAIN threads : HandleDelete(t)
    \/ hist.calls < MaxCalls /\ \E t \in DOMAIN threads : HandleBatchDelete(t)
    \/ hist.calls < MaxCalls /\ \E t \in DOMAIN threads : HandleDeleteByAccountID(t)
    \/ \E t \in DOMAIN threads : Invalidate(t)

PoolSpec == PoolInit /\ [][PoolNext]_vars

\* The catalogue with one reader, the MarkUsed goroutines and an
\* administrator who sends every request.
AdminInit ==
    /\ PoolStart
    /\ threads = [t \in {"r1", "a1"} |-> IF t = "a1" THEN IdleAdmin ELSE IdleReader]

AdminNext ==
    \/ hist.calls < MaxCalls /\ \E t \in DOMAIN threads : BeginGetRandomSignature(t)
    \/ \E t \in DOMAIN threads : getCachedSignatures(t)
    \/ \E t \in DOMAIN threads : LockCache(t)
    \/ \E t \in DOMAIN threads : reloadCache(t)
    \/ \E t \in DOMAIN threads : Draw(t)
    \/ MarkUsed
    \/ \E t \in DOMAIN threads : CancelContext(t)
    \/ hist.calls < MaxCalls /\ \E t \in DOMAIN threads : HandleCreate(t)
    \/ hist.calls < MaxCalls /\ \E t \in DOMAIN threads : HandleBatchImport(t)
    \/ hist.calls < MaxCalls /\ \E t \in DOMAIN threads : HandleUpdate(t)
    \/ \E t \in DOMAIN threads : ServiceWrite(t)
    \/ hist.calls < MaxCalls /\ \E t \in DOMAIN threads : HandleDelete(t)
    \/ hist.calls < MaxCalls /\ \E t \in DOMAIN threads : HandleBatchDelete(t)
    \/ hist.calls < MaxCalls /\ \E t \in DOMAIN threads : HandleDeleteByAccountID(t)
    \/ \E t \in DOMAIN threads : Invalidate(t)

AdminSpec == AdminInit /\ [][AdminNext]_vars

----------------------------------------------------------------------------
\* Properties of the pool.

\* The latest step was the answer of the first GetRandomSignature call begun
\* after an InvalidateCache returned.
NextAnswer == hist.last.op = "answer" /\ hist.last.since.next

\* The snapshot of the answer is a list loaded since the invalidation, if no
\* ListActive call failed since, and a value answered is one of its entries.
DrawnFromLoaded ==
    /\ ~hist.last.since.fail => hist.last.sigs \in hist.last.since.lists
    /\ hist.last.ok =>
          \E n \in 1..Len(hist.last.sigs) :
             /\ hist.last.sigs[n].ID = hist.last.id
             /\ hist.last.sigs[n].Value = hist.last.value

\* C14 as stated: the next GetRandomSignature call after InvalidateCache
\* returned calls ListActive itself before it answers, and draws its answer
\* from the list loaded.
C14_NextCallInvokesListActive ==
    NextAnswer => hist.last.since.own /\ DrawnFromLoaded

\* C14 amended: the next GetRandomSignature call after InvalidateCache
\* returned does not answer before ListActive was called after the
\* invalidation, by itself or by a concurrent call that held the lock first;
\* unless such a call failed, its snapshot is a list loaded after the
\* invalidation and its answer is drawn from it.
C14_NextCallAnswersAfterReload ==
    NextAnswer =>
       /\ hist.last.since.fail \/ hist.last.since.lists # {}
       /\ DrawnFromLoaded

\* C14 witness: the next call answered a value from a list that a concurrent
\* call loaded after the invalidation, without calling ListActive itself.
C14_Witness ==
    /\ NextAnswer
    /\ hist.last.ok
    /\ ~hist.last.since.own
    /\ ~hist.last.since.fail
    /\ hist.last.sigs \in hist.last.since.lists

\* C15: a step in which reloadCache's ListActive fails leaves cachedSigs
\* and cacheExpiry as they were and gives the caller the snapshot held; a
\* GetRandomSignature call answers from the snapshot it got, and with
\* ErrSignaturePoolEmpty exactly when that snapshot is empty.
C15_StaleOnFailure ==
    [][ /\ (hist'.last.op = "load" /\ ~hist'.last.ok) =>
              /\ cachedSigs' = cachedSigs
              /\ cacheExpiry' = cacheExpiry
              /\ threads'[hist'.last.t].pc = "draw"
              /\ threads'[hist'.last.t].sigs = cachedSigs
        /\ hist'.last.op = "answer" =>
              /\ hist'.last.sigs = threads[hist'.last.t].sigs
              /\ ~hist'.last.ok <=> hist'.last.sigs = <<>>
              /\ hist'.last.ok =>
                    \E n \in 1..Len(hist'.last.sigs) :
                       hist'.last.sigs[n].Value = hist'.last.value
      ]_vars

\* C15 witness: ListActive has just failed while a snapshot was held, and
\* the caller goes on with that snapshot.
C15_Witness ==
    /\ hist.last.op = "load"
    /\ ~hist.last.ok
    /\ cachedSigs # <<>>
    /\ threads[hist.last.t].pc = "draw"
    /\ threads[hist.last.t].sigs = cachedSigs

\* The entries of snapshot sigs that the models M admit: those with no
\* model or a model of M.
Admitted(sigs, M) ==
    {n \in 1..Len(sigs) : sigs[n].Model = NoModel \/ sigs[n].Model \in M}
Filtering(filter) == ~filter.nil /\ filter.Models # {}

C17_DegradesToUnfiltered ==
    (hist.last.op = "answer" /\ hist.last.sigs # <<>>
       /\ Filtering(hist.last.filter)
       /\ Admitted(hist.last.sigs, hist.last.filter.Models) = {}) =>
       /\ hist.last.ok
       /\ \E n \in 1..Len(hist.last.sigs) :
             /\ hist.last.sigs[n].ID = hist.last.id
             /\ hist.last.sigs[n].Value = hist.last.value

\* C17 witness: with the snapshot {(SIG-A, m1)} and the filter [m2] the call
\* answered SIG-A.
C17_Witness ==
    /\ hist.last.op = "answer"
    /\ hist.last.sigs = <<CachedSignature(1, SigA, "m1")>>
    /\ hist.last.filter = [nil |-> FALSE, Models |-> {"m2"}]
    /\ hist.last.ok
    /\ hist.last.value = SigA

\* C18 as stated: a GetRandomSignature call never answers the value of a
\* row that a handler completed before the call began had deleted or taken
\* out of the active status (and that was not made active again since).
C18_RemovedNeverAnswered ==
    (hist.last.op = "answer" /\ hist.last.ok) =>
       hist.last.id \notin hist.last.since.gone

\* C18 amended: such a row is answered only if a ListActive call failed
\* after the handler that removed it completed, so that the snapshot from
\* before the removal was kept.
C18_RemovedAnsweredOnlyAfterFailure ==
    (hist.last.op = "answer" /\ hist.last.ok
       /\ hist.last.id \in hist.last.since.gone) =>
       hist.last.id \in hist.last.since.dirty

\* C18 witness: a call begun after a removal completed, with no failed
\* ListActive call since, answered the value of another row.
C18_Witness ==
    /\ hist.last.op = "answer"
    /\ hist.last.ok
    /\ hist.last.since.gone # {}
    /\ hist.last.since.dirty = {}
    /\ hist.last.id \notin hist.last.since.gone
    /\ hist.last.id \in Active(rows)

----------------------------------------------------------------------------
\* Properties of the handlers and of the table.

\* The repository calls that write.
Writes == {"Create", "BatchCreate", "Update", "Delete", "BatchDelete",
           "DeleteByAccountID"}

\* C19: in the trace of every handler that has answered, InvalidateCache
\* was called exactly when the service call succeeded, after that call (and
\* with it every repository call) and right before the response; after a
\* failed service call the response follows at once.  A handler whose trace
\* holds a successful write has invalidated, and at its response the expiry
\* is the zero time.
C19_InvalidateExactlyOnSuccess ==
    hist.last.op = "response" =>
       LET tr == hist.last.trace
           n == Len(tr)
       IN  /\ tr[n].call = "response"
           /\ \E k \in 1..n :
                 /\ tr[k].call = "service"
                 /\ \A j \in 1..(k - 1) :
                       tr[j].call \notin {"service", "InvalidateCache", "response"}
                 /\ IF tr[k].ok
                    THEN n = k + 2 /\ tr[k + 1] = Made("InvalidateCache", TRUE)
                    ELSE n = k + 1
                 /\ tr[k].ok = hist.last.ok
           /\ (\E j \in 1..n : tr[j].call \in Writes /\ tr[j].ok) =>
                 \E j \in 1..n : tr[j].call = "InvalidateCache"
           /\ hist.last.ok => cacheExpiry = ZeroTime

\* C19 witness: a Create that wrote its row has answered after
\* InvalidateCache, and the cache that was loaded before is expired.
C19_Witness ==
    /\ hist.last.op = "response"
    /\ hist.last.req.op = "Create"
    /\ hist.last.trace = << Made("ExistsByHash", TRUE), Made("Create", TRUE),
                            Made("service", TRUE), Made("InvalidateCache", TRUE),
                            Made("response", TRUE) >>
    /\ cachedSigs # <<>>
    /\ cacheExpiry = ZeroTime

\* C20: no step lowers the use_count of a row of the table.
C20_UseCountNeverDecreases ==
    [][\A id \in DOMAIN rows : rows'[id].UseCount >= rows[id].UseCount]_vars

----------------------------------------------------------------------------
\* The signature service and its callers.  A caller runs one call of
\* SignaturePoolService at a time; a call is one step for each repository
\* statement it makes, so that the calls of two callers interleave between
\* the check of a hash and the insert.
\*
\* Here hist is a record: last is the event of the latest step if that step
\* was the return of a call (with prev, the call that returned before it,
\* and before, the table as it was when the call began), prev the latest
\* call that has returned, calls the number of calls begun.  The clock
\* moves on with each call: time.Now() is later in a call than in the calls
\* begun before it.

\* Errors: nil, the two errors of the service, and the errors the database
\* client gives (no row, a constraint violated, the connection lost).
NoError == "nil"
ErrSignatureNotFound == "SIGNATURE_NOT_FOUND"
ErrSignatureDuplicate == "SIGNATURE_DUPLICATE"
NotFoundError == "ent: signature not found"
ConstraintError == "ent: constraint failed"
DriverError == "driver: bad connection"

\* translatePersistenceError(err, notFound, conflict): the error of the
\* service that stands for a database error, where the caller has named one.
translatePersistenceError(err, notFound, conflict) ==
    CASE err = NotFoundError /\ notFound # NoError -> notFound
      [] err = ConstraintError /\ conflict # NoError -> conflict
      [] OTHER -> err

\* The error a repository method returns for the database error err: every
\* method of signatureRepository passes ErrSignatureNotFound and nil.
RepoError(err) == translatePersistenceError(err, ErrSignatureNotFound, NoError)

\* BatchImportResult, and what a call returns beside its error: the result
\* of an import (nil: none), or the count of a delete.
BatchImportResult(total, imported, duplicated, failed) ==
    [nil |-> FALSE, Total |-> total, Imported |-> imported,
     Duplicated |-> duplicated, Failed |-> failed, Count |-> 0]
NoResult == [BatchImportResult(0, 0, 0, 0) EXCEPT !.nil = TRUE]
Counted(n) == [NoResult EXCEPT !.Count = n]

\* The calls made of the service.  id is the id of the row, or the account.
ServiceRequest(op, id, ids, values, source, status) ==
    [op |-> op, id |-> id, ids |-> ids, values |-> values, source |-> source,
     status |-> status]
Accounts == {1, 2}
ServiceRequests ==
    { ServiceRequest("Create", 0, {}, <<v>>, "", "") : v \in {SigA, SigB} }
    \cup { ServiceRequest("BatchImport", 0, {}, V, "imported", "") :
             V \in {<<>>, <<SigA, SigB>>, <<SigA, SigB, SigB>>} }
    \cup { ServiceRequest("BatchImportWithAccountID", 1, {}, <<SigA, SigB>>, src, "") :
             src \in {"", "imported"} }
    \cup { ServiceRequest("BatchImportWithAccountID", 2, {}, <<SigB>>, "", "") }
    \cup { ServiceRequest("Update", 1, {}, <<>>, "", "disabled") }
    \cup { ServiceRequest("Delete", id, {}, <<>>, "", "") : id \in {1, 2} }
    \cup { ServiceRequest("BatchDelete", 0, ids, <<>>, "", "") : ids \in {{}, {1, 2}} }
    \cup { ServiceRequest("DeleteByAccountID", a, {}, <<>>, "", "") : a \in Accounts }

NoRequest == ServiceRequest("", 0, {}, <<>>, "", "")
IdleService == [kind |-> "service", pc |-> "idle", req |-> NoRequest,
                sigs |-> <<>>, result |-> NoResult, trace |-> <<>>,
                before |-> <<>>]

\* The tables a run starts from: the empty one, and the one that Create and
\* Delete of a value have left.
ServiceCatalogues ==
    { <<>>,
      << [Signature(SigA, NoModel, "manual", "active", NoAccount)
            EXCEPT !.DeletedAt = StartTime] >> }

\* The service over such a table, with one caller or two.
ServiceInit ==
    /\ rows \in ServiceCatalogues
    /\ cachedSigs = <<>>
    /\ cacheExpiry = ZeroTime
    /\ now = StartTime
    /\ cacheMu = NoThread
    /\ marks = EmptyBag
    /\ hist = [last |-> NoEvent, prev |-> NoEvent, calls |-> 0]
    /\ collector = NilCollector
    /\ mu = NoThread
    /\ StreamIdle
    /\ \E callers \in {{"s1"}, {"s1", "s2"}} :
          threads = [t \in callers |-> IdleService]

ServiceFrame ==
    /\ UNCHANGED <<cachedSigs, cacheExpiry, cacheMu, marks>>
    /\ PoolFrame

\* The call req of caller t returns err and result, having made the
\* repository calls of trace.
Returned(t, req, trace, err, result, before) ==
    /\ SetThread(t, IdleService)
    /\ now' = now + Begun(t)
    /\ hist' = [last |-> [op |-> "return", t |-> t, req |-> req, err |-> err,
                          result |-> result, trace |-> trace,
                          before |-> before, prev |-> hist.prev],
                prev |-> [op |-> "return", req |-> req, err |-> err,
                          before |-> before],
                calls |-> hist.calls + Begun(t)]

\* The call req of caller t goes on to its write of sigs.
Continue(t, req, trace, sigs, result) ==
    /\ SetThread(t, [IdleService EXCEPT !.pc = "write", !.req = req,
                                        !.sigs = sigs, !.result = result,
                                        !.trace = trace, !.before = rows])
    /\ now' = now + Begun(t)
    /\ hist' = [hist EXCEPT !.last = NoEvent, !.calls = @ + Begun(t)]

Enters(t, req, op) ==
    /\ threads[t].kind = "service"
    /\ threads[t].pc = "idle"
    /\ req.op = op

\* Create: ExistsByHash; Duplicate if it finds the hash; else repo.Create of
\* a manual, active row.
ServiceCreate(t) ==
    \E req \in ServiceRequests :
       /\ Enters(t, req, "Create")
       /\ \/ Returned(t, req, <<Made("ExistsByHash", FALSE)>>,
                      RepoError(DriverError), NoResult, rows)
          \/ IF ExistsByHash(rows, computeSignatureHash(req.values[1]))
             THEN Returned(t, req, <<Made("ExistsByHash", TRUE)>>,
                           ErrSignatureDuplicate, NoResult, rows)
             ELSE Continue(t, req, <<Made("ExistsByHash", TRUE)>>,
                           <<Signature(req.values[1], NoModel, "manual",
                                       "active", NoAccount)>>, NoResult)
       /\ UNCHANGED rows
       /\ ServiceFrame

\* The rows of an import as a bug would have them: one for every value,
\* found or not.
NewSigs_Unfiltered(rws, req) ==
    [n \in 1..Len(req.values) |->
        Signature(req.values[n], NoModel, "imported", "active", NoAccount)]

\* The rows BatchImport and BatchImportWithAccountID make of the values
\* whose hash ExistsByHashes did not find, one for each such element.
NewSigs(rws, req) ==
    LET isNew(v) == ~ExistsByHash(rws, computeSignatureHash(v))
        values == SelectSeq(req.values, isNew)
        source == CASE req.source # "" -> req.source
                    [] req.op = "BatchImport" -> "imported"
                    [] OTHER -> "collected"
        account == IF req.op = "BatchImport" THEN NoAccount ELSE req.id
    IN  [n \in 1..Len(values) |->
            Signature(values[n], NoModel, source, "active", account)]

\* BatchImport, BatchImportWithAccountID: nothing for no values; else
\* ExistsByHashes, and BatchCreate of the new rows if there is one.
ServiceBatchImport(t) ==
    \E req \in ServiceRequests :
       /\ \/ Enters(t, req, "BatchImport")
          \/ Enters(t, req, "BatchImportWithAccountID")
       /\ IF Len(req.values) = 0
          THEN Returned(t, req, <<>>, NoError, BatchImportResult(0, 0, 0, 0), rows)
          ELSE \/ Returned(t, req, <<Made("ExistsByHashes", FALSE)>>,
                           RepoError(DriverError), NoResult, rows)
               \/ \E newSigs \in {NewSigs(rows, req)} :
                     LET result == BatchImportResult(Len(req.values), 0,
                                       Len(req.values) - Len(newSigs), 0)
                     IN  IF Len(newSigs) > 0
                         THEN Continue(t, req, <<Made("ExistsByHashes", TRUE)>>,
                                       newSigs, result)
                         ELSE Returned(t, req, <<Made("ExistsByHashes", TRUE)>>,
                                       NoError, result, rows)
       /\ UNCHANGED rows
       /\ ServiceFrame

\* Update: GetByID, NotFound if the row is not there; else repo.Update of the
\* row read, with the status set.
ServiceUpdate(t) ==
    \E req \in ServiceRequests :
       /\ Enters(t, req, "Update")
       /\ \/ Returned(t, req, <<Made("GetByID", FALSE)>>,
                      RepoError(DriverError), NoResult, rows)
          \/ IF GetByID(rows, req.id)
             THEN Continue(t, req, <<Made("GetByID", TRUE)>>,
                           <<[rows[req.id] EXCEPT !.Status = req.status]>>,
                           NoResult)
             ELSE Returned(t, req, <<Made("GetByID", FALSE)>>,
                           RepoError(NotFoundError), NoResult, rows)
       /\ UNCHANGED rows
       /\ ServiceFrame

\* The write of a call: repo.Create, BatchCreate (one statement for all the
\* rows) or repo.Update.  When BatchCreate fails, Failed is the number of
\* rows it was given.
\* The result of an import whose BatchCreate failed, as a bug would have
\* it: the new values are not counted.
failedImport_Uncounted(result, newSigs) == result

\* The result of an import whose BatchCreate failed: result.Failed =
\* len(newSigs).
failedImport(result, newSigs) == [result EXCEPT !.Failed = Len(newSigs)]

RepoWrite(t) ==
    /\ threads[t].kind = "service"
    /\ threads[t].pc = "write"
    /\ LET req == threads[t].req
           sigs == threads[t].sigs
           call == CASE req.op = "Create" -> "Create"
                     [] req.op = "Update" -> "Update"
                     [] OTHER -> "BatchCreate"
           failed == IF call = "BatchCreate"
                     THEN failedImport(threads[t].result, sigs)
                     ELSE NoResult
           done == IF call = "BatchCreate"
                   THEN [threads[t].result EXCEPT !.Imported = Len(sigs)]
                   ELSE NoResult
           fails(err) ==
               /\ Returned(t, req, Append(threads[t].trace, Made(call, FALSE)),
                           RepoError(err), failed, threads[t].before)
               /\ UNCHANGED rows
       IN  \/ fails(DriverError)
           \/ IF call # "Update" /\ ~CanInsert(rows, sigs)
              THEN fails(ConstraintError)
              ELSE /\ rows' = IF call = "Update" THEN Update(rows, req.id, sigs[1])
                              ELSE rows \o sigs
                   /\ Returned(t, req, Append(threads[t].trace, Made(call, TRUE)),
                               NoError, done, threads[t].before)
    /\ ServiceFrame

\* Delete: one statement on the row of the id; NotFound if there is no row.
ServiceDelete(t) ==
    \E req \in ServiceRequests :
       /\ Enters(t, req, "Delete")
       /\ \/ /\ Returned(t, req, <<Made("Delete", FALSE)>>,
                         RepoError(DriverError), NoResult, rows)
             /\ UNCHANGED rows
          \/ IF req.id \in DOMAIN rows
             THEN /\ rows' = SoftDelete(rows, {req.id}, now + 1)
                  /\ Returned(t, req, <<Made("Delete", TRUE)>>, NoError,
                              NoResult, rows)
             ELSE /\ Returned(t, req, <<Made("Delete", FALSE)>>,
                              RepoError(NotFoundError), NoResult, rows)
                  /\ UNCHANGED rows
       /\ ServiceFrame

\* BatchDelete: nothing for no ids; else one statement on the rows of ids
\* that are not deleted, whose number it returns.
ServiceBatchDelete(t) ==
    \E req \in ServiceRequests :
       /\ Enters(t, req, "BatchDelete")
       /\ IF req.ids = {}
          THEN /\ Returned(t, req, <<>>, NoError, Counted(0), rows)
               /\ UNCHANGED rows
          ELSE \/ /\ Returned(t, req, <<Made("BatchDelete", FALSE)>>,
                              RepoError(DriverError), Counted(0), rows)
                  /\ UNCHANGED rows
               \/ /\ rows' = SoftDelete(rows, req.ids \cap Live(rows), now + 1)
                  /\ Returned(t, req, <<Made("BatchDelete", TRUE)>>, NoError,
                              Counted(Cardinality(req.ids \cap Live(rows))), rows)
       /\ ServiceFrame

\* DeleteByAccountID: one statement on the rows collected from the account
\* that are not deleted, whose number it returns.
ServiceDeleteByAccountID(t) ==
    \E req \in ServiceRequests :
       /\ Enters(t, req, "DeleteByAccountID")
       /\ \/ /\ Returned(t, req, <<Made("DeleteByAccountID", FALSE)>>,
                         RepoError(DriverError), Counted(0), rows)
             /\ UNCHANGED rows
          \/ /\ rows' = SoftDelete(rows, OfAccount(rows, req.id), now + 1)
             /\ Returned(t, req, <<Made("DeleteByAccountID", TRUE)>>, NoError,
                         Counted(Cardinality(OfAccount(rows, req.id))), rows)
       /\ ServiceFrame

ServiceNext ==
    \/ hist.calls < MaxCalls /\ \E t \in DOMAIN threads : ServiceCreate(t)
    \/ hist.calls < MaxCalls /\ \E t \in DOMAIN threads : ServiceBatchImport(t)
    \/ hist.calls < MaxCalls /\ \E t \in DOMAIN threads : ServiceUpdate(t)
    \/ \E t \in DOMAIN threads : RepoWrite(t)
    \/ hist.calls < MaxCalls /\ \E t \in DOMAIN threads : ServiceDelete(t)
    \/ hist.calls < MaxCalls /\ \E t \in DOMAIN threads : ServiceBatchDelete(t)
    \/ hist.calls < MaxCalls /\ \E t \in DOMAIN threads : ServiceDeleteByAccountID(t)

ServiceSpec == ServiceInit /\ [][ServiceNext]_vars

----------------------------------------------------------------------------
\* Properties of the catalogue.

\* The value has a row that is not deleted; it has a row as Create makes it.
Present(rws, v) == ExistsByHash(rws, computeSignatureHash(v))
CreatedRow(rws, v) ==
    \E id \in Live(rws) :
       /\ rws[id].Hash = computeSignatureHash(v)
       /\ rws[id].Source = "manual"
       /\ rws[id].Status = "active"
       /\ rws[id].UseCount = 0

\* The latest step was the return of a call of op, the only caller's, whose
\* previous call was the same call; neither met a failure of the database.
Twice(op) ==
    /\ hist.last.op = "return"
    /\ DOMAIN threads = {"s1"}
    /\ hist.last.req.op = op
    /\ hist.last.prev.op = "return"
    /\ hist.last.prev.req = hist.last.req
    /\ hist.last.prev.err # DriverError
    /\ hist.last.err # DriverError

\* C21: of two consecutive Create calls of a value that had no row that is
\* not deleted, the first persists a manual, active row of its hash with
\* use_count 0, and the second returns Duplicate and leaves the table as it
\* was.
C21_SecondCreateIsDuplicate ==
    (Twice("Create") /\ ~Present(hist.last.prev.before, hist.last.req.values[1]))
    => /\ hist.last.prev.err = NoError
       /\ CreatedRow(hist.last.before, hist.last.req.values[1])
       /\ hist.last.err = ErrSignatureDuplicate
       /\ rows = hist.last.before

\* The latest step was the return of a call of op, made with no other caller
\* about and without a failure of the database.
Alone(op) ==
    /\ hist.last.op = "return"
    /\ DOMAIN threads = {"s1"}
    /\ hist.last.req.op = op
    /\ hist.last.err # DriverError

\* No value comes twice in the list; the value has a row, deleted or not.
Distinct(values) ==
    \A n, k \in 1..Len(values) : n # k => values[n] # values[k]
Stored(rws, v) == \E id \in DOMAIN rws : rws[id].Hash = computeSignatureHash(v)

\* C22: hashes are unique among the rows that are not deleted only.  Create
\* returns Duplicate exactly when the value has a row that is not deleted,
\* and otherwise persists its row (so Create, Delete, Create of one value
\* succeeds twice); BatchImport imports a value whose only row is deleted.
C22_UniqueAmongLiveRows ==
    /\ Alone("Create") =>
          LET v == hist.last.req.values[1]
          IN  IF Present(hist.last.before, v)
              THEN hist.last.err = ErrSignatureDuplicate
              ELSE hist.last.err = NoError /\ CreatedRow(rows, v)
    /\ (Alone("BatchImport") /\ Distinct(hist.last.req.values)) =>
          \A n \in 1..Len(hist.last.req.values) :
             LET v == hist.last.req.values[n]
             IN  (Stored(hist.last.before, v) /\ ~Present(hist.last.before, v))
                 => hist.last.err = NoError /\ Present(rows, v)

\* The latest step was the return of a creation whose insert the database
\* refused, none of its values having had a row when the call began and none
\* coming twice: another caller's insert came first.
Creations == {"Create", "BatchImport", "BatchImportWithAccountID"}
LostRace ==
    /\ hist.last.op = "return"
    /\ hist.last.req.op \in Creations
    /\ hist.last.trace # <<>>
    /\ hist.last.trace[Len(hist.last.trace)].call \in {"Create", "BatchCreate"}
    /\ ~hist.last.trace[Len(hist.last.trace)].ok
    /\ hist.last.err # DriverError
    /\ Distinct(hist.last.req.values)
    /\ \A n \in 1..Len(hist.last.req.values) :
          ~Stored(hist.last.before, hist.last.req.values[n])

\* C23: however the calls of Create, BatchImport and BatchImportWithAccountID
\* interleave, no two rows that are not deleted have the same hash, and the
\* creation that loses the race returns Duplicate and persists nothing.
C23_RaceLoserGetsDuplicate ==
    /\ \A id, other \in Live(rows) :
          rows[id].Hash = rows[other].Hash => id = other
    /\ LostRace => hist.last.err = ErrSignatureDuplicate

\* C24: with the hash of X stored and Y not, BatchImport([X, Y, Y], nil,
\* "imported") returns no error, total 3 and failed 0, with imported 1 and
\* duplicated 2 or imported 2 and duplicated 1, and Y is present afterwards.
C24_RepeatedValueInBatch ==
    ( /\ Alone("BatchImport")
      /\ hist.last.req.values = <<SigA, SigB, SigB>>
      /\ Present(hist.last.before, SigA)
      /\ ~Stored(hist.last.before, SigB) )
    => /\ hist.last.err = NoError
       /\ ~hist.last.result.nil
       /\ hist.last.result.Total = 3
       /\ hist.last.result.Failed = 0
       /\ \/ hist.last.result.Imported = 1 /\ hist.last.result.Duplicated = 2
          \/ hist.last.result.Imported = 2 /\ hist.last.result.Duplicated = 1
       /\ Present(rows, SigB)

\* C25: of two consecutive BatchImport calls of the same values, the second
\* returns no error, imported 0 and duplicated the number of the values, and
\* leaves the table as it was.
C25_SecondImportAllDuplicated ==
    Twice("BatchImport")
    => /\ hist.last.err = NoError
       /\ ~hist.last.result.nil
       /\ hist.last.result.Imported = 0
       /\ hist.last.result.Duplicated = Len(hist.last.req.values)
       /\ rows = hist.last.before

\* The calls of a repository method in a trace, and whether one failed; the
\* latest step was the return of an import.
Calls(trace, call) == Cardinality({n \in 1..Len(trace) : trace[n].call = call})
FailedCall(trace, call) == \E n \in 1..Len(trace) : trace[n] = Made(call, FALSE)
Imports == {"BatchImport", "BatchImportWithAccountID"}
ImportReturned == hist.last.op = "return" /\ hist.last.req.op \in Imports

\* What C26 says of the import that has returned, but for the number of its
\* ExistsByHashes calls: at most one BatchCreate call, none when every value
\* was present or there was no value; when BatchCreate failed, an error, no
\* row persisted, failed the number of new values and imported 0; when
\* ExistsByHashes failed, an error and nothing written.
ImportCalls ==
    LET e == hist.last
        present == \A n \in 1..Len(e.req.values) : Present(e.before, e.req.values[n])
        only == DOMAIN threads = {"s1"}
    IN  /\ Calls(e.trace, "BatchCreate") <= 1
        /\ present => Calls(e.trace, "BatchCreate") = 0
        /\ FailedCall(e.trace, "BatchCreate")
           => /\ e.err # NoError
              /\ only => rows = e.before
              /\ ~e.result.nil
              /\ e.result.Failed = Len(NewSigs(e.before, e.req))
              /\ e.result.Imported = 0
        /\ FailedCall(e.trace, "ExistsByHashes")
           => /\ e.err # NoError
              /\ only => rows = e.before
              /\ Calls(e.trace, "BatchCreate") = 0

\* C26, as claimed: an import calls ExistsByHashes exactly once, and the
\* rest as above.
C26_ExistsByHashesExactlyOnce ==
    ImportReturned
    => Calls(hist.last.trace, "ExistsByHashes") = 1 /\ ImportCalls

\* C26, amended: an import calls ExistsByHashes exactly once when it is given
\* a value and not at all when it is given none, and the rest as above.
C26_ExistsByHashesOnceUnlessEmpty ==
    ImportReturned
    => /\ Calls(hist.last.trace, "ExistsByHashes")
             = (IF hist.last.req.values = <<>> THEN 0 ELSE 1)
       /\ ImportCalls

\* An import by BatchImportWithAccountID whose BatchCreate failed with two
\* new rows.
C26_Witness ==
    /\ ImportReturned
    /\ hist.last.req.op = "BatchImportWithAccountID"
    /\ hist.last.trace = <<Made("ExistsByHashes", TRUE), Made("BatchCreate", FALSE)>>
    /\ hist.last.result.Failed = 2

\* The rows the creation that has just returned has persisted: its insert
\* is the step of its return, so they are the last rows of the table.
Persisted ==
    LET n == IF hist.last.req.op = "Create" THEN 1 ELSE hist.last.result.Imported
    IN  (Len(rows) - n + 1)..Len(rows)
Created(op) ==
    /\ hist.last.op = "return"
    /\ hist.last.req.op = op
    /\ hist.last.err = NoError

\* C27: a row persisted by BatchImportWithAccountID has the account of the
\* call, status active, use_count 0 and the source given, or collected when
\* none is given; a row persisted by Create or BatchImport has no account;
\* DeleteByAccountID sets deleted_at of exactly the rows of the account that
\* are not deleted, returns their number and leaves every other row as it
\* was.
C27_AccountOfCollectedRows ==
    /\ Created("BatchImportWithAccountID") =>
          \A id \in Persisted :
             /\ rows[id].Account = hist.last.req.id
             /\ rows[id].Status = "active"
             /\ rows[id].UseCount = 0
             /\ rows[id].Source = IF hist.last.req.source = "" THEN "collected"
                                  ELSE hist.last.req.source
    /\ (Created("Create") \/ Created("BatchImport")) =>
          \A id \in Persisted : rows[id].Account = NoAccount
    /\ Created("DeleteByAccountID") =>
          LET was == hist.last.before
              hit == {id \in DOMAIN was : /\ was[id].Account = hist.last.req.id
                                          /\ was[id].DeletedAt = ZeroTime}
          IN  /\ DOMAIN rows = DOMAIN was
              /\ hist.last.result.Count = Cardinality(hit)
              /\ \A id \in hit :
                    /\ rows[id].DeletedAt # ZeroTime
                    /\ rows[id] = [was[id] EXCEPT !.DeletedAt = rows[id].DeletedAt]
              /\ \A id \in DOMAIN was \ hit : rows[id] = was[id]

\* DeleteByAccountID(1) has deleted the row that BatchImportWithAccountID
\* persisted for account 1 and left a row of account 2.
C27_Witness ==
    /\ Created("DeleteByAccountID")
    /\ hist.last.req.id = 1
    /\ hist.last.result.Count = 1
    /\ \E id \in Live(rows) : rows[id].Account = 2

\* C28: BatchDelete returns the number of the listed rows that were not
\* deleted and sets their deleted_at; the same call made again at once
\* returns 0 and no error and changes no row, deleted_at of the deleted rows
\* included.
C28_BatchDeleteIdempotent ==
    /\ Created("BatchDelete") =>
          LET was == hist.last.before
              hit == {id \in hist.last.req.ids \cap DOMAIN was :
                        was[id].DeletedAt = ZeroTime}
          IN  /\ hist.last.result.Count = Cardinality(hit)
              /\ \A id \in hit : rows[id].DeletedAt # ZeroTime
    /\ Twice("BatchDelete") =>
          /\ hist.last.err = NoError
          /\ hist.last.result.Count = 0
          /\ rows = hist.last.before

\* The second of two BatchDelete calls has returned; the first had deleted
\* a row.
C28_Witness ==
    /\ Twice("BatchDelete")
    /\ \E id \in hist.last.req.ids \cap DOMAIN rows :
          /\ hist.last.prev.before[id].DeletedAt = ZeroTime
          /\ rows[id].DeletedAt # ZeroTime

\* The rows that are deleted.
Deleted(rws) == {id \in DOMAIN rws : rws[id].DeletedAt # ZeroTime}

\* No read finds a deleted row.
ReadsOmitDeleted ==
    \A id \in Deleted(rows) :
       /\ ~GetByID(rows, id)
       /\ id \notin GetByHash(rows, rows[id].Hash)
       /\ ~ExistsByHash(rows, rows[id].Hash)
       /\ \A list \in ListActive(rows, ListActiveLimit) :
             \A n \in 1..Len(list) : list[n] # id
       /\ \A filter \in ListFilters : id \notin List(rows, filter)

\* The Delete or BatchDelete that has returned has changed deleted_at only;
\* the Update of a row that was deleted, or was not there, has returned
\* NotFound and changed nothing.
DeletesOnlyMark ==
    (hist.last.op = "return" /\ hist.last.req.op \in {"Delete", "BatchDelete"})
    => /\ DOMAIN rows = DOMAIN hist.last.before
       /\ \A id \in DOMAIN rows :
             rows[id] = [hist.last.before[id] EXCEPT !.DeletedAt = rows[id].DeletedAt]
UpdateOfDeleted ==
    ( /\ hist.last.op = "return"
      /\ hist.last.req.op = "Update"
      /\ hist.last.err # DriverError
      /\ hist.last.req.id \notin Live(hist.last.before) )
    => hist.last.err = ErrSignatureNotFound /\ rows = hist.last.before

\* C29: Delete and BatchDelete only mark rows, and no step takes a row out
\* of the table or clears its deleted_at; a deleted row is found by no read
\* (GetByID, GetByHash, ExistsByHash, ExistsByHashes, ListActive, List), and
\* the Update of its id returns NotFound and changes nothing.
C29_SoftDeletedRowsStayHidden ==
    /\ [](ReadsOmitDeleted /\ DeletesOnlyMark /\ UpdateOfDeleted)
    /\ [][/\ DOMAIN rows \subseteq DOMAIN rows'
          /\ \A id \in Deleted(rows) : rows'[id].DeletedAt # ZeroTime]_vars

\* The Update of a deleted row has returned NotFound.
C29_Witness ==
    /\ hist.last.op = "return"
    /\ hist.last.req.op = "Update"
    /\ hist.last.req.id \in Deleted(rows)
    /\ hist.last.err = ErrSignatureNotFound

\* C30: GetRandomSignature answers the value it has drawn while the MarkUsed
\* goroutine it started is still to run; no pending goroutine has a context
\* that a caller has cancelled; and the goroutine's run, whether
\* IncrementUseCount succeeds or fails, changes no caller and no cache.
C30_MarkUsedDetached ==
    /\ []((hist.last.op = "answer" /\ hist.last.ok)
          => /\ \E n \in 1..Len(hist.last.sigs) :
                   /\ hist.last.sigs[n].ID = hist.last.id
                   /\ hist.last.sigs[n].Value = hist.last.value
             /\ \E mark \in BagToSet(marks) : mark.id = hist.last.id)
    /\ [](\A mark \in BagToSet(marks) : ~Cancelled(mark.ctx))
    /\ [][hist'.last.op = "mark"
          => /\ threads' = threads
             /\ cachedSigs' = cachedSigs
             /\ cacheExpiry' = cacheExpiry]_vars

\* IncrementUseCount of a MarkUsed goroutine has succeeded after the caller
\* cancelled its context.
C30_Witness ==
    /\ hist.last.op = "mark"
    /\ hist.last.ok
    /\ rows[hist.last.mark.id].UseCount > 0
    /\ \A t \in DOMAIN threads : threads[t].kind = "reader" => threads[t].cancelled

----------------------------------------------------------------------------
\* Properties of the cache.

\* The step is the InvalidateCache call of a handler.
Invalidates ==
    \E t \in DOMAIN threads :
       /\ threads[t].kind = "admin"
       /\ threads[t].pc = "invalidate"
       /\ threads'[t].pc = "idle"

\* C31: InvalidateCache sets the expiry to the zero time and leaves the
\* snapshot, and so GetPoolSize, and the table as they were, so that a second
\* call after it changes nothing of the pool; and the snapshot changes only
\* by a reload whose ListActive call has succeeded.
C31_InvalidateOnlyResetsExpiry ==
    [][/\ Invalidates
          => /\ cachedSigs' = cachedSigs
             /\ GetPoolSize(cachedSigs') = GetPoolSize(cachedSigs)
             /\ cacheExpiry' = ZeroTime
             /\ rows' = rows
             /\ cacheExpiry = ZeroTime
                => <<cachedSigs', cacheExpiry', cacheMu'>>
                      = <<cachedSigs, cacheExpiry, cacheMu>>
       /\ cachedSigs' # cachedSigs
          => hist'.last.op = "load" /\ hist'.last.ok]_vars

\* InvalidateCache has returned, two rows having been removed by handlers,
\* over a snapshot that is not empty.
C31_Witness ==
    /\ hist.last.op = "response"
    /\ hist.last.ok
    /\ Cardinality(hist.gone) = 2
    /\ GetPoolSize(cachedSigs) > 0
    /\ cacheExpiry = ZeroTime

\* The step is the repo.Update call of the Update of request req.
UpdateWrites(req) ==
    \E t \in DOMAIN threads :
       /\ threads[t].kind = "admin"
       /\ threads[t].pc = "write"
       /\ threads[t].req = req
       /\ req.op = "Update"
       /\ threads'[t].pc # "write"

\* C32: the hash of every row is the hash of its value; no step changes the
\* value or the hash of a row; and an Update changes nothing but the status
\* and the model of its row, which become those of the call.
C32_ValueAndHashFrozen ==
    /\ [](\A id \in DOMAIN rows : rows[id].Hash = computeSignatureHash(rows[id].Value))
    /\ [][/\ \A id \in DOMAIN rows :
                /\ rows'[id].Value = rows[id].Value
                /\ rows'[id].Hash = rows[id].Hash
          /\ \A req \in Requests :
                UpdateWrites(req)
                => \/ rows' = rows
                   \/ rows' = [rows EXCEPT ![req.id] =
                                  [@ EXCEPT !.Status = req.status,
                                            !.Model = req.model]]]_vars

----------------------------------------------------------------------------
\* The stream processor with its mutex: a call of ProcessSSELine is the
\* steps at which it takes s.mu, asks the pool and returns; a second
\* goroutine reads the number of blocks meanwhile.  The handlers change the
\* map and the collector between Lock and the deferred Unlock, where no
\* other goroutine sees them: the model applies the changes at the Unlock.

IdleStream == [kind |-> "stream", pc |-> "idle", line |-> NoLine, r |-> NoAnswer]
IdleObserver == [kind |-> "observer", pc |-> "idle", line |-> NoLine, r |-> NoAnswer]

LockInit ==
    /\ config \in [Strategy : Strategies, PoolFilter : {NilFilter}]
    /\ cachedSigs \in Pools
    /\ collector \in {NilCollector, NewSignatureCollector(StreamMinLength)}
    /\ thinkingBlocks = <<>>
    /\ inp = <<>>
    /\ rets = <<>>
    /\ poolCalls = 0
    /\ streamMu = NoThread
    /\ mu = NoThread
    /\ cacheMu = NoThread
    /\ cacheExpiry = ZeroTime
    /\ now = StartTime
    /\ rows = <<>>
    /\ marks = EmptyBag
    /\ threads = [t \in {"p", "q"} |-> IF t = "p" THEN IdleStream ELSE IdleObserver]
    /\ hist = <<>>

LockFrame == UNCHANGED <<config, mu, poolVars, hist>>

\* The handler of the line reaches s.mu.Lock(): a content_block_start of a
\* thinking block, a signature_delta, every content_block_stop.
Locks(line) ==
    LET route == Route(line)
        event == UnmarshalEvent(line)
    IN  CASE route = "content_block_start" ->
               LET contentBlock == UnmarshalContentBlock(line, event.HasContentBlock)
               IN  contentBlock.ok /\ contentBlock.Type = "thinking"
          [] route = "content_block_delta" ->
               LET delta == UnmarshalDelta(line, event.HasDelta)
               IN  delta.ok /\ isSignatureDelta(delta)
          [] route = "content_block_stop" -> TRUE
          [] OTHER -> FALSE

\* The handler of the line calls replaceSignatureInLine or
\* generateSignatureDeltaLine, and with it the pool.
Fetches(s, line) == ProcessSSELine(s, line, NoAnswer).calls > s.calls

\* ProcessSSELine(line) is called and runs up to the Lock of its handler,
\* or up to its return when the handler takes no lock.
BeginProcessSSELine(t, line) ==
    /\ threads[t].kind = "stream" /\ threads[t].pc = "idle"
    /\ Len(inp) < MaxLines
    /\ threads' = [threads EXCEPT ![t] =
                      [@ EXCEPT !.pc = IF Locks(line) THEN "lock" ELSE "return",
                                !.line = line]]
    /\ UNCHANGED <<thinkingBlocks, collector, inp, rets, poolCalls, streamMu>>
    /\ LockFrame

\* s.mu.Lock(); defer s.mu.Unlock(), and the handler up to its call of the
\* pool, or to its return when it makes none.
LockStreamMu(t) ==
    /\ threads[t].kind = "stream" /\ threads[t].pc = "lock"
    /\ mutexFree(streamMu)
    /\ streamMu' = t
    /\ threads' = [threads EXCEPT ![t].pc =
                      IF Fetches(State, threads[t].line) THEN "fetch" ELSE "unlock"]
    /\ UNCHANGED <<thinkingBlocks, collector, inp, rets, poolCalls>>
    /\ LockFrame

\* s.signaturePool.GetRandomSignature(s.ctx, s.config.PoolFilter) is called.
CallPool(t) ==
    /\ threads[t].pc = "fetch"
    /\ threads' = [threads EXCEPT ![t].pc = "pool"]
    /\ UNCHANGED <<thinkingBlocks, collector, inp, rets, poolCalls, streamMu>>
    /\ LockFrame

\* The pool answers.
PoolReturns(t) ==
    /\ threads[t].pc = "pool"
    /\ \E r \in PoolAnswers :
          threads' = [threads EXCEPT ![t] = [@ EXCEPT !.pc = "unlock", !.r = r]]
    /\ UNCHANGED <<thinkingBlocks, collector, inp, rets, poolCalls, streamMu>>
    /\ LockFrame

\* The handler returns, the deferred Unlock runs if the handler locked, and
\* ProcessSSELine returns.
EndProcessSSELine(t) ==
    /\ threads[t].pc \in {"unlock", "return"}
    /\ \E res \in {ProcessSSELine(State, threads[t].line, threads[t].r)} :
          /\ inp' = Append(inp, threads[t].line)
          /\ rets' = Append(rets, [line |-> res.line, extra |-> res.extra,
                                  err |-> res.err])
          /\ thinkingBlocks' = res.tb
          /\ collector' = res.coll
          /\ poolCalls' = res.calls
    /\ streamMu' = IF threads[t].pc = "unlock" THEN NoThread ELSE streamMu
    /\ threads' = [threads EXCEPT ![t] = IdleStream]
    /\ LockFrame

\* GetThinkingBlockCount: s.mu.Lock(); defer s.mu.Unlock().
BeginGetThinkingBlockCount(t) ==
    /\ threads[t].kind = "observer" /\ threads[t].pc = "idle"
    /\ mutexFree(streamMu)
    /\ streamMu' = t
    /\ threads' = [threads EXCEPT ![t].pc = "count"]
    /\ UNCHANGED <<thinkingBlocks, collector, inp, rets, poolCalls>>
    /\ LockFrame

\* return len(s.thinkingBlocks), and the deferred Unlock.
EndGetThinkingBlockCount(t) ==
    /\ threads[t].pc = "count"
    /\ streamMu' = NoThread
    /\ threads' = [threads EXCEPT ![t].pc = "idle"]
    /\ UNCHANGED <<thinkingBlocks, collector, inp, rets, poolCalls>>
    /\ LockFrame

LockNext ==
    \/ \E t \in DOMAIN threads, line \in Lines : BeginProcessSSELine(t, line)
    \/ \E t \in DOMAIN threads : LockStreamMu(t)
    \/ \E t \in DOMAIN threads : CallPool(t)
    \/ \E t \in DOMAIN threads : PoolReturns(t)
    \/ \E t \in DOMAIN threads : EndProcessSSELine(t)
    \/ \E t \in DOMAIN threads : BeginGetThinkingBlockCount(t)
    \/ \E t \in DOMAIN threads : EndGetThinkingBlockCount(t)

LockSpec == LockInit /\ [][LockNext]_vars

\* C33: no thread holds the mutex of the stream processor while its call of
\* the pool is under way.
C33_NoPoolCallUnderMutex ==
    \A t \in DOMAIN threads : threads[t].pc = "pool" => streamMu # t

----------------------------------------------------------------------------
\* Properties of the snapshot.

\* Thread t leaves reloadCache in the step.
Reloads(t) == threads[t].pc = "reload" /\ threads'[t].pc = "draw"

\* The cache holds something and has not expired.
Unexpired(sigs, expiry, t) == sigs # <<>> /\ t < expiry

\* C34: the callers that find the cache expired or empty pass reloadCache
\* one at a time, each holding the write lock; the one that finds the cache
\* still expired or empty calls ListActive with the limit 1000, and a
\* successful call makes its list the snapshot and sets the expiry to now +
\* TTL, so that after a list that is not empty the cache is unexpired; the
\* one that finds the cache unexpired calls nothing and takes the snapshot
\* that is there.
C34_ReloadDoubleChecked ==
    [][\A t \in DOMAIN threads :
          /\ threads[t].pc = "reload" =>
                /\ cacheMu = t
                /\ \A v \in DOMAIN threads : threads[v].pc = "reload" => v = t
          /\ Reloads(t) =>
                /\ cacheMu' = NoThread
                /\ IF Unexpired(cachedSigs, cacheExpiry, now)
                   THEN /\ hist'.last.op # "load"
                        /\ threads'[t].sigs = cachedSigs
                        /\ <<cachedSigs', cacheExpiry'>> = <<cachedSigs, cacheExpiry>>
                   ELSE /\ hist'.last.op = "load" /\ hist'.last.t = t
                        /\ hist'.last.ok =>
                              /\ \E order \in ListActive(rows, 1000) :
                                    hist'.last.list = ToCache(rows, order)
                              /\ cachedSigs' = hist'.last.list
                              /\ cacheExpiry' = now + cacheTTL
                              /\ threads'[t].sigs = cachedSigs'
                              /\ cachedSigs' # <<>> =>
                                    Unexpired(cachedSigs', cacheExpiry', now')
      ]_vars

\* C34 witness: two calls found the cache expired; the first has loaded a
\* list that is not empty, and the second holds the write lock in
\* reloadCache and finds the cache unexpired.
C34_Witness ==
    \E t, v \in DOMAIN threads :
       /\ threads[t].kind = "reader" /\ threads[t].pc = "draw"
       /\ threads[t].since.own
       /\ threads[t].sigs = cachedSigs
       /\ threads[v].kind = "reader" /\ threads[v].pc = "reload"
       /\ ~threads[v].since.own
       /\ cacheMu = v
       /\ Unexpired(cachedSigs, cacheExpiry, now)

\* Thread t gets its snapshot in the step, from getCachedSignatures or from
\* reloadCache.
Takes(t) ==
    /\ threads[t].kind = "reader"
    /\ threads[t].pc \in {"cached", "reload"}
    /\ threads'[t].pc = "draw"

\* Thread t calls ListActive in the step, and the call fails.
OwnLoad(t) == hist'.last.op = "load" /\ hist'.last.t = t
OwnFailure(t) == OwnLoad(t) /\ ~hist'.last.ok

\* The first test of a call: with a cache that holds something and has not
\* expired the call takes the snapshot and ListActive is not called, and
\* otherwise it goes on to reloadCache.
FirstTest(t) ==
    (threads[t].pc = "cached" /\ threads'[t].pc # "cached") =>
       IF Unexpired(cachedSigs, cacheExpiry, now)
       THEN /\ threads'[t].pc = "draw"
            /\ threads'[t].sigs = cachedSigs
            /\ hist'.last.op # "load"
            /\ <<cachedSigs', cacheExpiry'>> = <<cachedSigs, cacheExpiry>>
       ELSE threads'[t].pc = "lock"

\* The clock does not go back, and the expiry changes only to the zero time
\* or, with the snapshot, to now + TTL at a ListActive call that succeeds.
\* A call gets the snapshot in the cache and gets it before the expiry that
\* the cache has with it, unless its own ListActive call has just failed.
TakenBeforeExpiry ==
    /\ now' >= now
    /\ <<cachedSigs', cacheExpiry'>> # <<cachedSigs, cacheExpiry>> =>
          \/ cachedSigs' = cachedSigs /\ cacheExpiry' = ZeroTime
          \/ /\ hist'.last.op = "load" /\ hist'.last.ok
             /\ cachedSigs' = hist'.last.list
             /\ cacheExpiry' = now + cacheTTL
    /\ \A t \in DOMAIN threads :
          Takes(t) =>
             /\ threads'[t].sigs = cachedSigs'
             /\ ~OwnFailure(t) => now' < cacheExpiry'

\* C35 as stated: a call answers from the snapshot without ListActive while
\* the cache is unexpired; a call that finds the cache expired calls
\* ListActive; and no call gets a snapshot at or after the expiry set when
\* the snapshot was stored, unless its ListActive call failed.
C35_ExpiredCallInvokesListActive ==
    [][/\ TakenBeforeExpiry
       /\ \A t \in DOMAIN threads :
             /\ FirstTest(t)
             /\ (threads[t].pc = "reload" /\ Takes(t)) => OwnLoad(t)]_vars

\* C35 amended: as stated, but a call that finds the cache expired calls
\* ListActive unless a concurrent call has called it with success since
\* and the cache is unexpired when the call holds the write lock; it then
\* takes the snapshot stored by that call.
C35_ExpiredCallAnswersAfterReload ==
    [][/\ TakenBeforeExpiry
       /\ \A t \in DOMAIN threads :
             /\ FirstTest(t)
             /\ (threads[t].pc = "reload" /\ Takes(t)) =>
                   \/ OwnLoad(t)
                   \/ /\ threads[t].since.loaded
                      /\ Unexpired(cachedSigs, cacheExpiry, now)
                      /\ threads'[t].sigs = cachedSigs]_vars

\* C35 witness: the clock has passed the expiry of a first snapshot, two
\* calls have found the cache expired, one of them has loaded a new list
\* and the other is about to take it in reloadCache.
C35_Witness ==
    \E t \in DOMAIN threads :
       /\ threads[t].kind = "reader" /\ threads[t].pc = "reload"
       /\ threads[t].since.loaded
       /\ Unexpired(cachedSigs, cacheExpiry, now)
       /\ cacheExpiry = StartTime + 2 * cacheTTL

\* C36: no step changes the list a call holds, be it a reload or an
\* InvalidateCache of another thread; the call answers an entry of that
\* list, at an index within the list the filter has left of it; and it
\* draws the index at a moment when no other thread holds the write lock.
C36_SnapshotImmutable ==
    [][\A t \in DOMAIN threads :
          (threads[t].kind = "reader" /\ threads[t].pc = "draw") =>
             /\ threads'[t].pc = "draw" => threads'[t].sigs = threads[t].sigs
             /\ threads'[t].pc # "draw" =>
                   /\ hist'.last.op = "answer" /\ hist'.last.t = t
                   /\ hist'.last.sigs = threads[t].sigs
                   /\ hist'.last.ok =>
                         /\ cacheMu = NoThread
                         /\ LET filtered == filterSignatures(threads[t].sigs,
                                                             hist'.last.filter)
                            IN  \E idx \in 0..(Len(filtered) - 1) :
                                   /\ filtered[idx + 1].ID = hist'.last.id
                                   /\ filtered[idx + 1].Value = hist'.last.value
      ]_vars

\* C36 witness: a call has answered an entry of the list it got before a
\* concurrent reload stored another list.
C36_Witness ==
    /\ hist.last.op = "answer"
    /\ hist.last.ok
    /\ cachedSigs # <<>>
    /\ hist.last.sigs # cachedSigs
    /\ \A n \in 1..Len(cachedSigs) : cachedSigs[n].ID # hist.last.id

----------------------------------------------------------------------------
\* Properties of the use counts.

\* The catalogue, where every MarkUsed goroutine that was started runs in
\* the end: the scheduler of Go leaves no runnable goroutine aside forever.
FairAdminSpec == AdminSpec /\ WF_vars(MarkUsed)

\* The ids a MarkUsed goroutine may be given: those of the catalogue and of
\* the rows created in a run.
MarkedIds == 1..(2 + MaxCalls)

\* One goroutine more, or less, than in marks, for the id.
OneMore(id) == \E ctx \in {Background} \cup DOMAIN threads :
                  marks' = marks (+) SetToBag({[ctx |-> ctx, id |-> id]})
OneLess(mark) == BagIn(mark, marks) /\ marks' = marks (-) SetToBag({mark})

\* C37: a GetRandomSignature call that answers a value starts one MarkUsed
\* goroutine, for the id of the entry it answers, and a call that answers
\* ErrSignaturePoolEmpty starts none; a goroutine that runs calls
\* IncrementUseCount once, which adds one to the use_count of its id unless
\* it fails; no other step starts a goroutine or changes a use_count, so
\* that with no failure and no goroutine left the use_count of a row is the
\* number of times it was selected; and every goroutine started runs in the
\* end.
C37_UseCountMatchesDraws ==
    /\ [][/\ hist'.last.op = "answer" =>
                IF hist'.last.ok THEN OneMore(hist'.last.id) ELSE marks' = marks
          /\ hist'.last.op = "mark" =>
                /\ OneLess(hist'.last.mark)
                /\ rows' = IF hist'.last.ok
                           THEN [rows EXCEPT ![hist'.last.mark.id].UseCount = @ + 1]
                           ELSE rows
          /\ hist'.last.op \notin {"answer", "mark"} =>
                /\ marks' = marks
                /\ \A id \in DOMAIN rows : rows'[id].UseCount = rows[id].UseCount
         ]_vars
    /\ \A id \in MarkedIds :
          (\E mark \in BagToSet(marks) : mark.id = id)
             ~> (hist.last.op = "mark" /\ hist.last.mark.id = id)

----------------------------------------------------------------------------
\* Properties of the imports.

\* C38: the result of an import that has returned one, with an error or
\* without, has total = imported + duplicated + failed and total = the
\* number of values given; an import of no value returns the result of
\* zeros and no error and has called the repository for nothing; and an
\* import returns no result only with an error.
C38_ImportResultAddsUp ==
    ImportReturned =>
       LET e == hist.last
       IN  /\ ~e.result.nil =>
                /\ e.result.Total
                      = e.result.Imported + e.result.Duplicated + e.result.Failed
                /\ e.result.Total = Len(e.req.values)
           /\ e.req.values = <<>> =>
                /\ e.result = BatchImportResult(0, 0, 0, 0)
                /\ e.err = NoError
                /\ e.trace = <<>>
           /\ e.result.nil => e.err # NoError

\* C38 witness: an import of two values, one of them in the table, has
\* returned an error and a result after its BatchCreate failed: total 2,
\* duplicated 1, failed 1.
C38_Witness ==
    /\ ImportReturned
    /\ hist.last.err # NoError
    /\ hist.last.result = [BatchImportResult(2, 0, 1, 1) EXCEPT !.nil = FALSE]
    /\ FailedCall(hist.last.trace, "BatchCreate")

----------------------------------------------------------------------------
\* Properties of the injection.

IsBlockStart(line, i) ==
    EventType(line) = "content_block_start" /\ EventIndex(line) = i

\* Position of the last content_block_start of index i before input k, of
\* a thinking block or of another, 0 if none.
RECURSIVE LastBlockStart(_, _)
LastBlockStart(k, i) ==
    IF k <= 1 THEN 0
    ELSE IF IsBlockStart(inp[k - 1], i) THEN k - 1
    ELSE LastBlockStart(k - 1, i)

\* Input k stops a block of index i that no content_block_start opened, or
\* that the latest content_block_start of the index opened as another
\* block than a thinking block.
StopOfOther(k, i) ==
    /\ StopIn(k, i)
    /\ LastBlockStart(k, i) # 0 => ~StartIn(LastBlockStart(k, i), i)

\* C39: an index has state exactly when a content_block_start of a
\* thinking block came in for it; the stop of an index without state
\* injects nothing; and the stop of a block that the latest
\* content_block_start of its index opened as a non-thinking block
\* injects nothing.
C39_InjectsOnlyForThinking ==
    /\ \A i \in Indexes :
          i \in DOMAIN thinkingBlocks <=> LastStart(Len(inp) + 1, i) # 0
    /\ \A k \in 1..Len(inp) : \A i \in Indexes :
          StopOfOther(k, i) => rets[k].extra = <<>>

----------------------------------------------------------------------------
\* Properties of the collection.

\* The signatures of the signature_delta lines that came from upstream.
FromUpstream == {SignatureOf(inp[k]) : k \in {j \in 1..Len(inp) : SigIn(j)}}

\* C40: a call of ProcessSSELine hands to Collect nothing, or the signature
\* that its input line carries as a signature_delta: the collector is after
\* the call as it was, or as Collect leaves it for that signature.  So every
\* signature the collector holds is the signature of a signature_delta that
\* came from upstream, also for a line that was rewritten with a value of
\* the pool and for a stop that injected a synthetic line.
C40_CollectsUpstreamOnly ==
    /\ [][Len(inp') = Len(inp) + 1 =>
             LET line == inp'[Len(inp')]
             IN  \/ collector' = collector
                 \/ /\ IsSignatureDelta(line)
                    /\ collector' = Collect(collector, SignatureOf(line))]_vars
    /\ [](\A n \in 1..Len(collector.signatures) :
             collector.signatures[n] \in FromUpstream)

\* C40 witness: under always_replace a signature_delta was rewritten with
\* a value of the pool that the collector would keep, and the collector
\* holds the upstream signature of the line and nothing else.
C40_Witness ==
    /\ config.Strategy = "always_replace"
    /\ collector.present
    /\ collector.signatures = <<Upstream>>
    /\ \E k \in 1..Len(inp) :
          /\ SigIn(k)
          /\ SignatureOf(inp[k]) = Upstream
          /\ SignatureOf(rets[k].line) = SigB
          /\ ~belowMinLength(collector, SigB)

====
